---- MODULE Spec2Model ----
(***************************************************************************)
(* Detection aggregation and guidance engine of the AI mobility assistant. *)
(*                                                                         *)
(* backend/app/services/detection_logic.py: geometry, grouping, the        *)
(* re-announcement window (should_announce) and the per-frame arbitration  *)
(* (generate_audio_message).                                               *)
(* backend/app/services/video_processor.py: the frame loop of              *)
(* run_detection_with_video that threads one detection_state and one       *)
(* audio_log through the sampled frames of a video.                        *)
(*                                                                         *)
(* Numbers.  Confidences are kept in hundredths (0.7 is 70).  A distance   *)
(* score y2 / frame_h is kept as the exact fraction <<y2, frame_h>> and    *)
(* compared by cross-multiplication; a box centre (x1 + x2) / 2 is         *)
(* compared the same way.  Bucket keys f"{label}_{horiz}_{depth}" are the  *)
(* triples <<label, horiz, depth>> (the string is an injective rendering   *)
(* of the triple: horiz and depth hold no underscore).  A Python value     *)
(* that is either None or one string is a sequence of zero or one string.  *)
(*                                                                         *)
(* Input.  The detectors are black boxes: every sampled frame gets any     *)
(* sequence of boxes of the video's scene (YOLO's, then the lights', then  *)
(* the zebra's), MaxBoxes boxes at most over the session.  The frame rates *)
(* 180, 357 and 360 give the strides 60, 119 and 120, so that a key is     *)
(* seen again 60, 119 and 120 frames after an announcement.                *)
(*                                                                         *)
(* Steps.  SampledFrame is one iteration of the loop on a sampled frame;   *)
(* SkipFrames is the run of iterations between two sampled frames, none of *)
(* which touches detection_state or audio_log.  The variables emissions    *)
(* and last are history: they record what the iterations did.              *)
(*                                                                         *)
(* Specifications.  Spec is one invocation on a video of a scene.  GeoSpec *)
(* is one invocation on a one-frame video of any small size holding one    *)
(* box anywhere.  TwoSessions is two invocations on the same video, which  *)
(* use sessions and video; Spec and GeoSpec leave these two empty.         *)
(* PipeSpec follows run_detection and run_detection_with_video call by     *)
(* call (source, detectors, arbitration, sink, progress callback, except   *)
(* and finally clauses) in run and done.  GateSpec is the semaphore of     *)
(* main.py around the sessions of the video endpoints, in requests and     *)
(* semaphore.                                                              *)
(***************************************************************************)
EXTENDS Integers, Sequences, FiniteSets, TLC

VARIABLES
    scene,            \* the video: an index of Scenes (input)
    frame_w,          \* cap.get(CAP_PROP_FRAME_WIDTH)
    frame_h,          \* cap.get(CAP_PROP_FRAME_HEIGHT)
    fps,              \* cap.get(CAP_PROP_FPS) or 30
    total_frames,     \* frames the source holds
    frame_count,      \* run_detection_with_video: frame_count
    processed_frames, \* run_detection_with_video: processed_frames
    audio_log,        \* run_detection_with_video: audio_log
    detection_state,  \* run_detection_with_video: detection_state
    status,           \* "running" until the function has returned
    boxes_left,       \* boxes the detectors may still report (bounds the input)
    emissions,        \* history: the [frame, key, msg] of every message emitted
    last,             \* history: what the latest loop iteration did
    sessions,         \* concurrent invocations: the locals of each of them
    video,            \* what the detectors report on the frames they were run on
    run,              \* the invocation followed call by call: locals and history
    done,             \* what the earlier invocations on the same video returned
    requests,         \* the detection requests of the server: where each one is
    semaphore         \* app.state.semaphore: free permits and waiting requests

vars == <<scene, frame_w, frame_h, fps, total_frames, frame_count,
          processed_frames, audio_log, detection_state, status, boxes_left,
          emissions, last, sessions, video, run, done, requests, semaphore>>

(***************************************************************************)
(* Bounds of the model.                                                    *)
(***************************************************************************)
MaxBoxes == 3      \* boxes reported by the detectors over one session
MaxFrames == 121   \* frames of the video (indices 0 .. 120)
MaxCoord == 6      \* frame sizes and box coordinates of the geometry videos
MaxVideoBoxes == 2 \* boxes of the video that two invocations process

(***************************************************************************)
(* Configuration (detection_logic.py, video_processor.py).                 *)
(***************************************************************************)
FRAME_GROUPING_WINDOW == 120
CONFIDENCE_THRESHOLD == 70
TARGET_FPS == 3

VEHICLE_CLASSES == {"Car", "Bus", "Truck", "Motorcycle", "Bicycle"}
TRAFFIC_LIGHTS == {"Green Light", "Red Light", "Yellow Light"}
ZEBRA_CROSSING == {"Zebra Crossing"}

YOLO_CLASS_NAMES(cls_id) ==
    CASE cls_id = 0 -> "Person"
      [] cls_id = 1 -> "Bicycle"
      [] cls_id = 2 -> "Car"
      [] cls_id = 3 -> "Motorcycle"
      [] cls_id = 5 -> "Bus"
      [] cls_id = 7 -> "Truck"
      [] OTHER -> "Object_" \o ToString(cls_id)

TRAFFIC_LIGHT_CLASS_NAMES(cls_id) ==
    CASE cls_id = 2 -> "Green Light"
      [] cls_id = 3 -> "Red Light"
      [] cls_id = 4 -> "Yellow Light"
      [] OTHER -> "Light_" \o ToString(cls_id)

ZEBRA_CLASS_NAMES(cls_id) ==
    CASE cls_id = 8 -> "Zebra Crossing"
      [] OTHER -> "Crossing_" \o ToString(cls_id)

\* calculate_distance_score measured from the top of the frame's lower half
calculate_distance_score_lower_half(y2, h) == <<2 * y2 - h, h>>

(***************************************************************************)
(* Geometry.                                                               *)
(***************************************************************************)
\* y2 / frame_h, as the fraction <<y2, frame_h>>
calculate_distance_score(y2, h) == <<y2, h>>

\* score > num / den, for a score <<y2, h>> with h > 0
ScoreGt(score, num, den) == score[1] * den > num * score[2]

\* a.dist_score >= b.dist_score
ScoreGeq(a, b) == a[1] * b[2] >= b[1] * a[2]

\* get_position with the boundaries counted in the nearer and outer zones
get_position_inclusive(x1, x2, y2, w, h) ==
    LET horiz == IF 3 * (x1 + x2) <= 2 * w THEN "left"
                 ELSE IF 3 * (x1 + x2) >= 4 * w THEN "right"
                 ELSE "center"
        depth == IF 4 * y2 >= 3 * h THEN "very close"
                 ELSE IF 2 * y2 >= h THEN "approaching"
                 ELSE "far"
    IN  <<horiz, depth>>

\* get_position(cx, cy, y2, frame_w, frame_h) with cx = (x1 + x2) / 2:
\* cx < w/3 iff 3(x1+x2) < 2w; cx > 2w/3 iff 3(x1+x2) > 4w;
\* y2 > 0.75h iff 4 y2 > 3h; y2 > 0.5h iff 2 y2 > h.
get_position(x1, x2, y2, w, h) ==
    LET horiz == IF 3 * (x1 + x2) < 2 * w THEN "left"
                 ELSE IF 3 * (x1 + x2) > 4 * w THEN "right"
                 ELSE "center"
        depth == IF 4 * y2 > 3 * h THEN "very close"
                 ELSE IF 2 * y2 > h THEN "approaching"
                 ELSE "far"
    IN  <<horiz, depth>>

(***************************************************************************)
(* Normalisation of one raw box of a detector into a detection dict.       *)
(* A box is [model, cls, conf, x1, x2, y2].                                *)
(***************************************************************************)
class_label(box) ==
    CASE box.model = "yolo" -> YOLO_CLASS_NAMES(box.cls)
      [] box.model = "lights" -> TRAFFIC_LIGHT_CLASS_NAMES(box.cls)
      [] box.model = "zebra" -> ZEBRA_CLASS_NAMES(box.cls)

make_detection(box, w, h) ==
    LET pos == get_position(box.x1, box.x2, box.y2, w, h)
    IN  [label |-> class_label(box), conf |-> box.conf,
         x1 |-> box.x1, x2 |-> box.x2, y2 |-> box.y2,
         horiz |-> pos[1], depth |-> pos[2],
         dist_score |-> calculate_distance_score(box.y2, h),
         model |-> box.model]

\* the detections of a frame: YOLO's boxes, then the lights', then the zebra's
merge_detections(ys, ls, zs, w, h) ==
    LET boxes == ys \o ls \o zs
    IN  [i \in 1..Len(boxes) |-> make_detection(boxes[i], w, h)]

(***************************************************************************)
(* Grouping: buckets in order of first occurrence (a dict keeps insertion  *)
(* order), each a record [key, dets].                                      *)
(***************************************************************************)
detection_key(det) == <<det.label, det.horiz, det.depth>>

RECURSIVE group_into(_, _)
group_into(grouped, dets) ==
    IF dets = <<>> THEN grouped
    ELSE LET det == Head(dets)
             key == detection_key(det)
             idx == {i \in 1..Len(grouped) : grouped[i].key = key}
         IN  IF idx = {}
             THEN group_into(Append(grouped, [key |-> key, dets |-> <<det>>]),
                             Tail(dets))
             ELSE LET i == CHOOSE j \in idx : TRUE
                  IN  group_into([grouped EXCEPT ![i].dets = Append(@, det)],
                                 Tail(dets))

\* group_detections with grouped[key] = [det] in place of the append: a
\* bucket keeps only its latest detection
group_detections_overwriting(detections) ==
    LET grouped == group_into(<<>>, detections)
    IN  [i \in 1..Len(grouped) |->
            [grouped[i] EXCEPT !.dets = <<grouped[i].dets[Len(grouped[i].dets)]>>]]

group_detections(detections) == group_into(<<>>, detections)

(***************************************************************************)
(* should_announce: the result and the detection_state it leaves.          *)
(***************************************************************************)
\* should_announce with an occurrence count that starts at 0
should_announce_count0(key, current_frame, st) ==
    IF key \notin DOMAIN st
    THEN [ret |-> TRUE,
          state |-> (key :> [first_frame |-> current_frame,
                             last_frame |-> current_frame,
                             last_announced |-> current_frame,
                             count |-> 0]) @@ st]
    ELSE LET seen == [st[key] EXCEPT !.last_frame = current_frame,
                                     !.count = @ + 1]
             frames_since_announcement == current_frame - st[key].last_announced
         IN  IF frames_since_announcement >= FRAME_GROUPING_WINDOW
             THEN [ret |-> TRUE,
                   state |-> [st EXCEPT ![key] =
                                 [seen EXCEPT !.last_announced = current_frame]]]
             ELSE [ret |-> FALSE, state |-> [st EXCEPT ![key] = seen]]

\* should_announce with > in place of >= on the window
should_announce_strict(key, current_frame, st) ==
    IF key \notin DOMAIN st
    THEN [ret |-> TRUE,
          state |-> (key :> [first_frame |-> current_frame,
                             last_frame |-> current_frame,
                             last_announced |-> current_frame,
                             count |-> 1]) @@ st]
    ELSE LET seen == [st[key] EXCEPT !.last_frame = current_frame,
                                     !.count = @ + 1]
             frames_since_announcement == current_frame - st[key].last_announced
         IN  IF frames_since_announcement > FRAME_GROUPING_WINDOW
             THEN [ret |-> TRUE,
                   state |-> [st EXCEPT ![key] =
                                 [seen EXCEPT !.last_announced = current_frame]]]
             ELSE [ret |-> FALSE, state |-> [st EXCEPT ![key] = seen]]

\* should_announce with the window one frame short
should_announce_early(key, current_frame, st) ==
    IF key \notin DOMAIN st
    THEN [ret |-> TRUE,
          state |-> (key :> [first_frame |-> current_frame,
                             last_frame |-> current_frame,
                             last_announced |-> current_frame,
                             count |-> 1]) @@ st]
    ELSE LET seen == [st[key] EXCEPT !.last_frame = current_frame,
                                     !.count = @ + 1]
             frames_since_announcement == current_frame - st[key].last_announced
         IN  IF frames_since_announcement >= FRAME_GROUPING_WINDOW - 1
             THEN [ret |-> TRUE,
                   state |-> [st EXCEPT ![key] =
                                 [seen EXCEPT !.last_announced = current_frame]]]
             ELSE [ret |-> FALSE, state |-> [st EXCEPT ![key] = seen]]

\* should_announce leaving last_announced alone when it announces again
should_announce_unmarked(key, current_frame, st) ==
    IF key \notin DOMAIN st
    THEN [ret |-> TRUE,
          state |-> (key :> [first_frame |-> current_frame,
                             last_frame |-> current_frame,
                             last_announced |-> current_frame,
                             count |-> 1]) @@ st]
    ELSE LET seen == [st[key] EXCEPT !.last_frame = current_frame,
                                     !.count = @ + 1]
             frames_since_announcement == current_frame - st[key].last_announced
         IN  [ret |-> frames_since_announcement >= FRAME_GROUPING_WINDOW,
              state |-> [st EXCEPT ![key] = seen]]

\* should_announce starting the entry afresh when it announces again
should_announce_restarting(key, current_frame, st) ==
    IF key \notin DOMAIN st
    THEN [ret |-> TRUE,
          state |-> (key :> [first_frame |-> current_frame,
                             last_frame |-> current_frame,
                             last_announced |-> current_frame,
                             count |-> 1]) @@ st]
    ELSE LET seen == [st[key] EXCEPT !.last_frame = current_frame,
                                     !.count = @ + 1]
             frames_since_announcement == current_frame - st[key].last_announced
         IN  IF frames_since_announcement >= FRAME_GROUPING_WINDOW
             THEN [ret |-> TRUE,
                   state |-> [st EXCEPT ![key] =
                                 [first_frame |-> current_frame,
                                  last_frame |-> current_frame,
                                  last_announced |-> current_frame,
                                  count |-> 1]]]
             ELSE [ret |-> FALSE, state |-> [st EXCEPT ![key] = seen]]

should_announce(key, current_frame, st) ==
    IF key \notin DOMAIN st
    THEN [ret |-> TRUE,
          state |-> (key :> [first_frame |-> current_frame,
                             last_frame |-> current_frame,
                             last_announced |-> current_frame,
                             count |-> 1]) @@ st]
    ELSE LET seen == [st[key] EXCEPT !.last_frame = current_frame,
                                     !.count = @ + 1]
             frames_since_announcement == current_frame - st[key].last_announced
         IN  IF frames_since_announcement >= FRAME_GROUPING_WINDOW
             THEN [ret |-> TRUE,
                   state |-> [st EXCEPT ![key] =
                                 [seen EXCEPT !.last_announced = current_frame]]]
             ELSE [ret |-> FALSE, state |-> [st EXCEPT ![key] = seen]]

\* One call made by generate_audio_message on its accumulator
\* [state, cands, calls]: the state is threaded, the call is recorded.
announce(acc, key, current_frame) ==
    LET r == should_announce(key, current_frame, acc.state)
    IN  [acc EXCEPT !.state = r.state,
                    !.calls = Append(@, [key |-> key, ret |-> r.ret])]

\* the result of the call announce() has just recorded
announced(acc) == acc.calls[Len(acc.calls)].ret

\* messages.append(msg); priority_scores.append(priority).  key and stage
\* are history: the bucket the message is about and the block that built it.
candidate(acc, msg, priority, key, stage) ==
    [acc EXCEPT !.cands = Append(@, [msg |-> msg, priority |-> priority,
                                     key |-> key, stage |-> stage])]

(***************************************************************************)
(* generate_audio_message, block by block.  Every block takes and returns  *)
(* the accumulator [state, cands, calls].                                  *)
(***************************************************************************)
\* light_message with the red light given the priority of the other colours
light_message_red9(acc, det, key) ==
    IF det.label = "Green Light"
    THEN candidate(acc, "Green light ahead. It's safe to cross.", 9, key, "lights")
    ELSE IF det.label = "Red Light"
    THEN candidate(acc, "Red light ahead. Stop and wait.", 9, key, "lights")
    ELSE IF det.label = "Yellow Light"
    THEN candidate(acc, "Yellow light ahead. Prepare to stop.", 9, key, "lights")
    ELSE acc

\* the if / elif chain on the colour of a traffic light
light_message(acc, det, key) ==
    IF det.label = "Green Light"
    THEN candidate(acc, "Green light ahead. It's safe to cross.", 9, key, "lights")
    ELSE IF det.label = "Red Light"
    THEN candidate(acc, "Red light ahead. Stop and wait.", 10, key, "lights")
    ELSE IF det.label = "Yellow Light"
    THEN candidate(acc, "Yellow light ahead. Prepare to stop.", 9, key, "lights")
    ELSE acc

\* "Check for traffic lights first": the loop over grouped_detections.items()
RECURSIVE traffic_lights(_, _, _)
traffic_lights(grouped, current_frame, acc) ==
    IF grouped = <<>> THEN acc
    ELSE LET key == Head(grouped).key
             det == Head(grouped).dets[1]
             called == announce(acc, key, current_frame)
         IN  IF key[1] \notin TRAFFIC_LIGHTS
             THEN traffic_lights(Tail(grouped), current_frame, acc)
             ELSE IF det.conf < CONFIDENCE_THRESHOLD
             THEN traffic_lights(Tail(grouped), current_frame, acc)
             ELSE IF ~announced(called)
             THEN traffic_lights(Tail(grouped), current_frame, called)
             ELSE traffic_lights(Tail(grouped), current_frame,
                                 light_message(called, det, key))

\* zebra_scan with the break one level out: only the first bucket is looked at
zebra_scan_first_bucket(grouped) ==
    IF grouped = <<>> THEN <<>>
    ELSE IF grouped[1].dets[1].label \in ZEBRA_CROSSING
            /\ grouped[1].dets[1].conf >= CONFIDENCE_THRESHOLD
         THEN <<grouped[1].key>>
         ELSE <<>>

\* zebra_scan with the break inside the confidence test: the first zebra
\* bucket that passes the threshold decides
zebra_scan_first_confident(grouped) ==
    LET idx == {i \in 1..Len(grouped) :
                   /\ grouped[i].dets[1].label \in ZEBRA_CROSSING
                   /\ grouped[i].dets[1].conf >= CONFIDENCE_THRESHOLD}
    IN  IF idx = {} THEN <<>>
        ELSE <<grouped[CHOOSE j \in idx : \A k \in idx : j <= k].key>>

\* "Check for zebra crossing": the first zebra bucket decides, then break.
\* The result is <<zebra_key>> when zebra_detected, <<>> otherwise.
zebra_scan(grouped) ==
    LET idx == {i \in 1..Len(grouped) : grouped[i].dets[1].label \in ZEBRA_CROSSING}
    IN  IF idx = {} THEN <<>>
        ELSE LET i == CHOOSE j \in idx : \A k \in idx : j <= k
             IN  IF grouped[i].dets[1].conf >= CONFIDENCE_THRESHOLD
                 THEN <<grouped[i].key>>
                 ELSE <<>>

\* "Check for vehicles and people": the buckets that pass the threshold
confident(grouped) ==
    SelectSeq(grouped, LAMBDA g : ~(g.dets[1].conf < CONFIDENCE_THRESHOLD))

vehicle_info(g) ==
    [label |-> g.dets[1].label, horiz |-> g.dets[1].horiz,
     depth |-> g.dets[1].depth, dist_score |-> g.dets[1].dist_score,
     count |-> Len(g.dets), key |-> g.key]

vehicle_buckets(grouped) ==
    SelectSeq(confident(grouped), LAMBDA g : g.dets[1].label \in VEHICLE_CLASSES)

infos(buckets) == [i \in 1..Len(buckets) |-> vehicle_info(buckets[i])]

vehicles_left(grouped) ==
    infos(SelectSeq(vehicle_buckets(grouped), LAMBDA g : g.dets[1].horiz = "left"))

vehicles_right(grouped) ==
    infos(SelectSeq(vehicle_buckets(grouped), LAMBDA g : g.dets[1].horiz = "right"))

vehicles_center(grouped) ==
    infos(SelectSeq(vehicle_buckets(grouped),
                    LAMBDA g : g.dets[1].horiz \notin {"left", "right"}))

people_detected(grouped) ==
    infos(SelectSeq(confident(grouped), LAMBDA g : g.dets[1].label = "Person"))

\* list.sort(key=dist_score, reverse=True): stable, closest first
insert_by_dist_score(sorted, v) ==
    LET n == Cardinality({i \in 1..Len(sorted) :
                             ScoreGeq(sorted[i].dist_score, v.dist_score)})
    IN  SubSeq(sorted, 1, n) \o <<v>> \o SubSeq(sorted, n + 1, Len(sorted))

RECURSIVE sort_by_dist_score(_)
sort_by_dist_score(list) ==
    IF list = <<>> THEN <<>>
    ELSE insert_by_dist_score(sort_by_dist_score(SubSeq(list, 1, Len(list) - 1)),
                              list[Len(list)])

count_str(count) == IF count > 1 THEN ToString(count) \o " " ELSE "A "

\* vehicle_name without the plural
vehicle_name_singular(label, count) == label

vehicle_name(label, count) == IF count > 1 THEN label \o "s" ELSE label

\* center_warning with >= in place of > on the 0.75 threshold
center_warning_inclusive(vehicles, current_frame, acc) ==
    IF vehicles = <<>> THEN acc
    ELSE LET v == vehicles[1]
             called == announce(acc, v.key, current_frame)
             name == count_str(v.count) \o vehicle_name(v.label, v.count)
         IN  IF ~announced(called) THEN called
             ELSE IF v.dist_score[1] * 100 >= 75 * v.dist_score[2]
             THEN candidate(called,
                    "Watch out! " \o name \o " right in front of you! Stay where you are!",
                    10, v.key, "center")
             ELSE IF ScoreGt(v.dist_score, 5, 10)
             THEN candidate(called, "Careful! " \o name \o " coming towards you.",
                            8, v.key, "center")
             ELSE called

\* "Generate vehicle warnings - CENTER (front)"; vehicles is the sorted list
center_warning(vehicles, current_frame, acc) ==
    IF vehicles = <<>> THEN acc
    ELSE LET v == vehicles[1]
             called == announce(acc, v.key, current_frame)
             name == count_str(v.count) \o vehicle_name(v.label, v.count)
         IN  IF ~announced(called) THEN called
             ELSE IF ScoreGt(v.dist_score, 75, 100)
             THEN candidate(called,
                    "Watch out! " \o name \o " right in front of you! Stay where you are!",
                    10, v.key, "center")
             ELSE IF ScoreGt(v.dist_score, 5, 10)
             THEN candidate(called, "Careful! " \o name \o " coming towards you.",
                            8, v.key, "center")
             ELSE called

\* "LEFT side"
left_warning(vehicles, current_frame, acc) ==
    IF vehicles = <<>> THEN acc
    ELSE LET v == vehicles[1]
             called == announce(acc, v.key, current_frame)
             name == count_str(v.count) \o vehicle_name(v.label, v.count)
         IN  IF ~announced(called) THEN called
             ELSE IF ScoreGt(v.dist_score, 75, 100)
             THEN candidate(called,
                    "Warning! " \o name \o " on your left side! Don't move!",
                    9, v.key, "left")
             ELSE IF ScoreGt(v.dist_score, 5, 10)
             THEN candidate(called, name \o " approaching on your left.",
                            7, v.key, "left")
             ELSE called

\* right_warning with the priorities of the center block
right_warning_as_center(vehicles, current_frame, acc) ==
    IF vehicles = <<>> THEN acc
    ELSE LET v == vehicles[1]
             called == announce(acc, v.key, current_frame)
             name == count_str(v.count) \o vehicle_name(v.label, v.count)
         IN  IF ~announced(called) THEN called
             ELSE IF ScoreGt(v.dist_score, 75, 100)
             THEN candidate(called,
                    "Warning! " \o name \o " on your right side! Don't move!",
                    10, v.key, "right")
             ELSE IF ScoreGt(v.dist_score, 5, 10)
             THEN candidate(called, name \o " approaching on your right.",
                            8, v.key, "right")
             ELSE called

\* "RIGHT side"
right_warning(vehicles, current_frame, acc) ==
    IF vehicles = <<>> THEN acc
    ELSE LET v == vehicles[1]
             called == announce(acc, v.key, current_frame)
             name == count_str(v.count) \o vehicle_name(v.label, v.count)
         IN  IF ~announced(called) THEN called
             ELSE IF ScoreGt(v.dist_score, 75, 100)
             THEN candidate(called,
                    "Warning! " \o name \o " on your right side! Don't move!",
                    9, v.key, "right")
             ELSE IF ScoreGt(v.dist_score, 5, 10)
             THEN candidate(called, name \o " approaching on your right.",
                            7, v.key, "right")
             ELSE called

\* zebra_guidance with 0.75 in place of 0.6 for a vehicle that is nearby
zebra_guidance_close75(zebra, center, left, right, current_frame, acc) ==
    IF zebra = <<>> THEN acc
    ELSE LET called == announce(acc, zebra[1], current_frame)
             all == center \o left \o right
         IN  IF ~announced(called) THEN called
             ELSE IF center = <<>> /\ left = <<>> /\ right = <<>>
             THEN candidate(called,
                    "Zebra crossing in front of you. No vehicles nearby. You can cross now.",
                    7, zebra[1], "zebra")
             ELSE IF \E i \in 1..Len(all) : ScoreGt(all[i].dist_score, 75, 100)
             THEN candidate(called,
                    "Zebra crossing ahead, but vehicles are nearby. Wait for them to pass.",
                    8, zebra[1], "zebra")
             ELSE called

\* zebra_guidance without the should_announce gate
zebra_guidance_ungated(zebra, center, left, right, current_frame, acc) ==
    IF zebra = <<>> THEN acc
    ELSE LET called == announce(acc, zebra[1], current_frame)
             all == center \o left \o right
         IN  IF center = <<>> /\ left = <<>> /\ right = <<>>
             THEN candidate(called,
                    "Zebra crossing in front of you. No vehicles nearby. You can cross now.",
                    7, zebra[1], "zebra")
             ELSE IF \E i \in 1..Len(all) : ScoreGt(all[i].dist_score, 6, 10)
             THEN candidate(called,
                    "Zebra crossing ahead, but vehicles are nearby. Wait for them to pass.",
                    8, zebra[1], "zebra")
             ELSE called

\* "Zebra crossing guidance"; zebra is zebra_scan's result
zebra_guidance(zebra, center, left, right, current_frame, acc) ==
    IF zebra = <<>> THEN acc
    ELSE LET called == announce(acc, zebra[1], current_frame)
             all == center \o left \o right
         IN  IF ~announced(called) THEN called
             ELSE IF center = <<>> /\ left = <<>> /\ right = <<>>
             THEN candidate(called,
                    "Zebra crossing in front of you. No vehicles nearby. You can cross now.",
                    7, zebra[1], "zebra")
             ELSE IF \E i \in 1..Len(all) : ScoreGt(all[i].dist_score, 6, 10)
             THEN candidate(called,
                    "Zebra crossing ahead, but vehicles are nearby. Wait for them to pass.",
                    8, zebra[1], "zebra")
             ELSE called

\* people_warning without the sort: the first person bucket of the frame
people_warning_unsorted(people, current_frame, acc) ==
    IF people = <<>> THEN acc
    ELSE LET p == people[1]
             called == announce(acc, p.key, current_frame)
             people_str == IF p.count > 1 THEN ToString(p.count) \o " people"
                           ELSE "Person"
             position == IF p.horiz = "center" THEN "ahead"
                         ELSE IF p.horiz = "left" THEN "left"
                         ELSE "right"
         IN  IF ~ScoreGt(p.dist_score, 75, 100) THEN acc
             ELSE IF ~announced(called) THEN called
             ELSE candidate(called, people_str \o " " \o position \o ".",
                            4, p.key, "person")

\* "People detection - only announce if very close"
\* people_warning calling should_announce ahead of the proximity test
people_warning_eager(people, current_frame, acc) ==
    IF people = <<>> THEN acc
    ELSE LET p == sort_by_dist_score(people)[1]
             called == announce(acc, p.key, current_frame)
             people_str == IF p.count > 1 THEN ToString(p.count) \o " people"
                           ELSE "Person"
             position == IF p.horiz = "center" THEN "ahead"
                         ELSE IF p.horiz = "left" THEN "left"
                         ELSE "right"
         IN  IF ~announced(called) \/ ~ScoreGt(p.dist_score, 75, 100) THEN called
             ELSE candidate(called, people_str \o " " \o position \o ".",
                            4, p.key, "person")

people_warning(people, current_frame, acc) ==
    IF people = <<>> THEN acc
    ELSE LET p == sort_by_dist_score(people)[1]
             called == announce(acc, p.key, current_frame)
             people_str == IF p.count > 1 THEN ToString(p.count) \o " people"
                           ELSE "Person"
             position == IF p.horiz = "center" THEN "ahead"
                         ELSE IF p.horiz = "left" THEN "left"
                         ELSE "right"
         IN  IF ~ScoreGt(p.dist_score, 75, 100) THEN acc
             ELSE IF ~announced(called) THEN called
             ELSE candidate(called, people_str \o " " \o position \o ".",
                            4, p.key, "person")

\* sorted(zip(priority_scores, messages), key=lambda x: x[0], reverse=True),
\* as the candidates' indices: highest priority first, and (the sort being
\* stable) equal priorities in the order of the list
insert_by_priority(cands, sorted, i) ==
    LET n == Cardinality({j \in 1..Len(sorted) :
                             cands[sorted[j]].priority >= cands[i].priority})
    IN  SubSeq(sorted, 1, n) \o <<i>> \o SubSeq(sorted, n + 1, Len(sorted))

RECURSIVE sorted_upto(_, _)
sorted_upto(cands, n) ==
    IF n = 0 THEN <<>>
    ELSE insert_by_priority(cands, sorted_upto(cands, n - 1), n)

\* sorted_msgs without reverse=True: lowest priority first
sorted_msgs_ascending(cands) ==
    LET down == sorted_upto(cands, Len(cands))
    IN  [i \in 1..Len(down) |-> down[Len(down) + 1 - i]]

sorted_msgs(cands) == sorted_upto(cands, Len(cands))

\* the index of sorted_msgs[0] in the list of candidates, 0 when it is empty
top_priority_index(cands) ==
    IF cands # <<>> THEN sorted_msgs(cands)[1] ELSE 0

\* return_message with every candidate returned instead of the first of the sort
return_message_all(cands) ==
    [i \in 1..Len(cands) |-> cands[sorted_msgs(cands)[i]].msg]

\* "Return ONLY the highest priority message": <<message>>, or <<>> for None
return_message(cands) ==
    IF cands # <<>> THEN <<cands[sorted_msgs(cands)[1]].msg>> ELSE <<>>

\* generate_audio_message(grouped_detections, frame_count, fps, detection_state):
\* the value returned (ret), the detection_state left behind (state), and as
\* history the candidates, the should_announce calls and the winner's index.
generate_audio_message(grouped, current_frame, rate, st) ==
    LET lights == traffic_lights(grouped, current_frame,
                                 [state |-> st, cands |-> <<>>, calls |-> <<>>])
        zebra == zebra_scan(grouped)
        left == sort_by_dist_score(vehicles_left(grouped))
        right == sort_by_dist_score(vehicles_right(grouped))
        center == sort_by_dist_score(vehicles_center(grouped))
        acc_c == center_warning(center, current_frame, lights)
        acc_l == left_warning(left, current_frame, acc_c)
        acc_r == right_warning(right, current_frame, acc_l)
        acc_z == zebra_guidance(zebra, center, left, right, current_frame, acc_r)
        acc_p == people_warning(people_detected(grouped), current_frame, acc_z)
    IN  [ret |-> return_message(acc_p.cands), state |-> acc_p.state,
         cands |-> acc_p.cands, calls |-> acc_p.calls,
         win |-> top_priority_index(acc_p.cands)]

(***************************************************************************)
(* The videos of the model: what the three detectors can report.  A scene  *)
(* holds, per detector, the boxes it may return for a frame of the video;  *)
(* every sampled frame gets any sequence of them, within boxes_left.       *)
(***************************************************************************)
Box(model, cls, conf, x1, x2, y2) ==
    [model |-> model, cls |-> cls, conf |-> conf, x1 |-> x1, x2 |-> x2, y2 |-> y2]

FrameSizes == {<<900, 600>>}

FpsValues == {180, 357, 360}

Scenes ==
    << \* a red and a green light, a car in front and one on the left
      [yolo |-> {Box("yolo", 2, 90, 400, 500, 560), Box("yolo", 2, 90, 50, 150, 560)},
       lights |-> {Box("lights", 3, 90, 400, 500, 100), Box("lights", 2, 90, 50, 150, 100),
                   Box("lights", 4, 69, 750, 850, 100)},
       zebra |-> {}],
      \* confidences at, above and below the threshold, in one bucket
      [yolo |-> {Box("yolo", 2, 90, 400, 500, 560), Box("yolo", 2, 69, 380, 480, 570),
                 Box("yolo", 2, 70, 420, 520, 550)},
       lights |-> {Box("lights", 3, 70, 400, 500, 100), Box("lights", 3, 69, 380, 480, 90)},
       zebra |-> {}],
      \* vehicles in front at every depth
      [yolo |-> {Box("yolo", 2, 90, 400, 500, 560), Box("yolo", 5, 90, 400, 500, 450),
                 Box("yolo", 7, 90, 400, 500, 330), Box("yolo", 1, 90, 400, 500, 300),
                 Box("yolo", 5, 69, 400, 500, 580)},
       lights |-> {},
       zebra |-> {}],
      \* vehicles on both sides
      [yolo |-> {Box("yolo", 2, 90, 50, 150, 560), Box("yolo", 2, 90, 750, 850, 560),
                 Box("yolo", 5, 90, 50, 150, 450), Box("yolo", 5, 90, 750, 850, 330),
                 Box("yolo", 3, 90, 50, 150, 200)},
       lights |-> {},
       zebra |-> {}],
      \* zebra crossings with vehicles near and far, a green and a yellow light
      [yolo |-> {Box("yolo", 2, 90, 400, 500, 450), Box("yolo", 2, 90, 50, 150, 330)},
       lights |-> {Box("lights", 2, 90, 750, 850, 100), Box("lights", 4, 90, 400, 500, 100)},
       zebra |-> {Box("zebra", 8, 80, 400, 500, 400), Box("zebra", 8, 60, 400, 500, 250),
                  Box("zebra", 8, 90, 50, 150, 250)}],
      \* people near and far, and a class the tables do not name
      [yolo |-> {Box("yolo", 0, 90, 50, 150, 200), Box("yolo", 0, 90, 400, 500, 560),
                 Box("yolo", 0, 90, 750, 850, 580), Box("yolo", 0, 69, 400, 500, 590),
                 Box("yolo", 16, 90, 400, 500, 560)},
       lights |-> {},
       zebra |-> {}] >>

\* the sequences over S of length at most n
SeqsUpTo(S, n) == UNION {[1..k -> S] : k \in 0..n}

(***************************************************************************)
(* run_detection_with_video                                                *)
(***************************************************************************)
\* cap.get(cv2.CAP_PROP_FPS) or 30
fps_or_default(raw) == IF raw = 0 THEN 30 ELSE raw

\* round(n / d) for d > 0: Python rounds a half to the even neighbour
round_half_even(n, d) ==
    LET q == n \div d
        r == n % d
    IN  IF 2 * r < d THEN q
        ELSE IF 2 * r > d THEN q + 1
        ELSE IF q % 2 = 0 THEN q ELSE q + 1

\* frame_skip = max(1, int(round(fps / TARGET_FPS)))
frame_skip(rate) ==
    LET n == round_half_even(rate, TARGET_FPS)
    IN  IF n > 1 THEN n ELSE 1

\* should_process on the frames that follow a multiple of the stride
should_process_after(count, rate) == (count + 1) % frame_skip(rate) = 0

\* should_process = (frame_count % frame_skip == 0)
should_process(count, rate) == count % frame_skip(rate) = 0

\* if audio_message: audio_log.append(audio_message)
append_message(log, ret) == IF ret # <<>> THEN Append(log, ret[1]) ELSE log

\* grouped = group_detections(detections); if detections: audio_message =
\* generate_audio_message(grouped, frame_count, fps, detection_state)
frame_result(detections, current_frame, st) ==
    IF detections # <<>>
    THEN generate_audio_message(group_detections(detections), current_frame, fps, st)
    ELSE [ret |-> <<>>, state |-> st, cands |-> <<>>, calls |-> <<>>, win |-> 0]

NoFrame ==
    [kind |-> "none", frame |-> 0, detections |-> <<>>, cands |-> <<>>,
     calls |-> <<>>, ret |-> <<>>, win |-> 0]

Init ==
    /\ scene \in DOMAIN Scenes
    /\ \E size \in FrameSizes : frame_w = size[1] /\ frame_h = size[2]
    /\ \E raw \in FpsValues : fps = fps_or_default(raw)
    /\ total_frames = MaxFrames
    /\ frame_count = 0
    /\ processed_frames = 0
    /\ audio_log = <<>>
    /\ detection_state = <<>>
    /\ status = "running"
    /\ boxes_left = MaxBoxes
    /\ emissions = <<>>
    /\ last = NoFrame
    /\ sessions = <<>>
    /\ video = <<>>
    /\ run = <<>>
    /\ done = <<>>
    /\ requests = <<>>
    /\ semaphore = <<>>

\* One iteration of the loop on a sampled frame: the three detectors run,
\* their boxes are merged, grouped and arbitrated, the message is logged.
SampledFrame ==
    /\ status = "running"
    /\ frame_count < total_frames
    /\ should_process(frame_count, fps)
    /\ \E ys \in SeqsUpTo(Scenes[scene].yolo, boxes_left) :
       \E ls \in SeqsUpTo(Scenes[scene].lights, boxes_left - Len(ys)) :
       \E zs \in SeqsUpTo(Scenes[scene].zebra, boxes_left - Len(ys) - Len(ls)) :
          LET detections == merge_detections(ys, ls, zs, frame_w, frame_h)
              r == frame_result(detections, frame_count, detection_state)
          IN  /\ detection_state' = r.state
              /\ audio_log' = append_message(audio_log, r.ret)
              /\ boxes_left' = boxes_left - Len(detections)
              /\ emissions' = IF r.win # 0
                              THEN Append(emissions, [frame |-> frame_count,
                                                      key |-> r.cands[r.win].key,
                                                      msg |-> r.cands[r.win].msg])
                              ELSE emissions
              /\ last' = [kind |-> "sampled", frame |-> frame_count,
                          detections |-> detections, cands |-> r.cands,
                          calls |-> r.calls, ret |-> r.ret, win |-> r.win]
    /\ processed_frames' = processed_frames + 1
    /\ frame_count' = frame_count + 1
    /\ UNCHANGED <<scene, frame_w, frame_h, fps, total_frames, status>>
    /\ UNCHANGED <<sessions, video, run, done, requests, semaphore>>

\* The run of consecutive iterations on frames that are not sampled, taken
\* as one step: each of them only writes the frame through and adds one to
\* frame_count.
SkipFrames ==
    /\ status = "running"
    /\ frame_count < total_frames
    /\ ~should_process(frame_count, fps)
    /\ LET next == (frame_count \div frame_skip(fps) + 1) * frame_skip(fps)
       IN  frame_count' = IF next < total_frames THEN next ELSE total_frames
    /\ last' = [NoFrame EXCEPT !.kind = "skipped", !.frame = frame_count]
    /\ UNCHANGED <<scene, frame_w, frame_h, fps, total_frames, processed_frames,
                   audio_log, detection_state, status, boxes_left, emissions>>
    /\ UNCHANGED <<sessions, video, run, done, requests, semaphore>>

\* cap.read() returns no frame: break, release, return audio_log
EndOfStream ==
    /\ status = "running"
    /\ frame_count >= total_frames
    /\ status' = "returned"
    /\ last' = [NoFrame EXCEPT !.kind = "end", !.frame = frame_count]
    /\ UNCHANGED <<scene, frame_w, frame_h, fps, total_frames, frame_count,
                   processed_frames, audio_log, detection_state, boxes_left,
                   emissions>>
    /\ UNCHANGED <<sessions, video, run, done, requests, semaphore>>

Next == SampledFrame \/ SkipFrames \/ EndOfStream

Spec == Init /\ [][Next]_vars

(***************************************************************************)
(* The geometry videos: a video of any small frame size, a zero width or   *)
(* height included (cap.get gives 0 for a property the backend does not    *)
(* know), whose one frame holds one box anywhere.  The coordinates of a    *)
(* box are numpy float32 values, so that y2 / 0 is inf (nan for y2 = 0)    *)
(* and not an exception: <<y2, 0>> compares like it, above every threshold *)
(* for y2 > 0 and above none for y2 = 0.                                   *)
(***************************************************************************)
GeoSizes == (0..MaxCoord) \X (0..MaxCoord)

GeoBoxes ==
    {Box("yolo", 2, 90, x1, x2, y2) :
        x1 \in 0..MaxCoord, x2 \in 0..(MaxCoord + 1), y2 \in 0..(MaxCoord + 1)}

GeoInit ==
    /\ scene = 0
    /\ \E size \in GeoSizes : frame_w = size[1] /\ frame_h = size[2]
    /\ fps = fps_or_default(0)
    /\ total_frames = 1
    /\ frame_count = 0
    /\ processed_frames = 0
    /\ audio_log = <<>>
    /\ detection_state = <<>>
    /\ status = "running"
    /\ boxes_left = 1
    /\ emissions = <<>>
    /\ last = NoFrame
    /\ sessions = <<>>
    /\ video = <<>>
    /\ run = <<>>
    /\ done = <<>>
    /\ requests = <<>>
    /\ semaphore = <<>>

\* The iteration of the loop on the frame of a geometry video.
GeoFrame ==
    /\ status = "running"
    /\ frame_count < total_frames
    /\ should_process(frame_count, fps)
    /\ \E box \in GeoBoxes :
          LET detections == merge_detections(<<box>>, <<>>, <<>>, frame_w, frame_h)
              r == frame_result(detections, frame_count, detection_state)
          IN  /\ box.x1 <= box.x2
              /\ detection_state' = r.state
              /\ audio_log' = append_message(audio_log, r.ret)
              /\ boxes_left' = boxes_left - Len(detections)
              /\ emissions' = IF r.win # 0
                              THEN Append(emissions, [frame |-> frame_count,
                                                      key |-> r.cands[r.win].key,
                                                      msg |-> r.cands[r.win].msg])
                              ELSE emissions
              /\ last' = [kind |-> "sampled", frame |-> frame_count,
                          detections |-> detections, cands |-> r.cands,
                          calls |-> r.calls, ret |-> r.ret, win |-> r.win]
    /\ processed_frames' = processed_frames + 1
    /\ frame_count' = frame_count + 1
    /\ UNCHANGED <<scene, frame_w, frame_h, fps, total_frames, status>>
    /\ UNCHANGED <<sessions, video, run, done, requests, semaphore>>

GeoNext == GeoFrame \/ EndOfStream

GeoSpec == GeoInit /\ [][GeoNext]_vars

(***************************************************************************)
(* Two invocations of run_detection_with_video on the same video, their    *)
(* loop iterations interleaved in any order (one after the other           *)
(* included).  audio_log, detection_state, frame_count and                 *)
(* processed_frames are locals of the function: sessions[s] holds those of *)
(* invocation s.  The detectors are functions of the frame: video[f] is    *)
(* what they report on frame f, decided when the first invocation gets     *)
(* there, within boxes_left.                                               *)
(***************************************************************************)
SessionIds == {1, 2}

\* audio_log = []; detection_state = {}; frame_count = 0; processed_frames = 0
new_session ==
    [status |-> "running", frame_count |-> 0, processed_frames |-> 0,
     audio_log |-> <<>>, detection_state |-> <<>>]

\* session_frame with one detection_state for all the invocations
session_frame_shared_state(ss, s, detections) ==
    LET r == frame_result(detections, ss[s].frame_count, ss[s].detection_state)
    IN  [t \in DOMAIN ss |->
            IF t = s
            THEN [ss[t] EXCEPT !.detection_state = r.state,
                               !.audio_log = append_message(@, r.ret),
                               !.processed_frames = @ + 1,
                               !.frame_count = @ + 1]
            ELSE [ss[t] EXCEPT !.detection_state = r.state]]

\* step 5 and the counters of one iteration of invocation s on a sampled frame
session_frame(ss, s, detections) ==
    LET r == frame_result(detections, ss[s].frame_count, ss[s].detection_state)
    IN  [ss EXCEPT ![s] = [@ EXCEPT !.detection_state = r.state,
                                    !.audio_log = append_message(@, r.ret),
                                    !.processed_frames = @ + 1,
                                    !.frame_count = @ + 1]]

\* what the detectors can report on frame f
detector_results(f) ==
    IF f \in DOMAIN video THEN {video[f]}
    ELSE {merge_detections(ys, ls, zs, frame_w, frame_h) :
             <<ys, ls, zs>> \in
                 {c \in SeqsUpTo(Scenes[scene].yolo, boxes_left)
                        \X SeqsUpTo(Scenes[scene].lights, boxes_left)
                        \X SeqsUpTo(Scenes[scene].zebra, boxes_left) :
                     Len(c[1]) + Len(c[2]) + Len(c[3]) <= boxes_left}}

TwoInit ==
    /\ scene \in DOMAIN Scenes
    /\ \E size \in FrameSizes : frame_w = size[1] /\ frame_h = size[2]
    /\ fps = fps_or_default(180)
    /\ total_frames = MaxFrames
    /\ frame_count = 0
    /\ processed_frames = 0
    /\ audio_log = <<>>
    /\ detection_state = <<>>
    /\ status = "none"
    /\ boxes_left = MaxVideoBoxes
    /\ emissions = <<>>
    /\ last = NoFrame
    /\ sessions = [s \in SessionIds |-> new_session]
    /\ video = <<>>
    /\ run = <<>>
    /\ done = <<>>
    /\ requests = <<>>
    /\ semaphore = <<>>

SessionUnchanged ==
    UNCHANGED <<scene, frame_w, frame_h, fps, total_frames, frame_count,
                processed_frames, audio_log, detection_state, status,
                emissions, last, run, done, requests, semaphore>>

\* One iteration of the loop of invocation s on a sampled frame.
SessionSampledFrame(s) ==
    /\ sessions[s].status = "running"
    /\ sessions[s].frame_count < total_frames
    /\ should_process(sessions[s].frame_count, fps)
    /\ \E detections \in detector_results(sessions[s].frame_count) :
          /\ sessions' = session_frame(sessions, s, detections)
          /\ video' = (sessions[s].frame_count :> detections) @@ video
          /\ boxes_left' = IF sessions[s].frame_count \in DOMAIN video
                           THEN boxes_left
                           ELSE boxes_left - Len(detections)
    /\ SessionUnchanged

\* The iterations of invocation s on the frames up to the next sampled one.
SessionSkipFrames(s) ==
    /\ sessions[s].status = "running"
    /\ sessions[s].frame_count < total_frames
    /\ ~should_process(sessions[s].frame_count, fps)
    /\ LET next == (sessions[s].frame_count \div frame_skip(fps) + 1) * frame_skip(fps)
       IN  sessions' = [sessions EXCEPT ![s].frame_count =
                           IF next < total_frames THEN next ELSE total_frames]
    /\ UNCHANGED <<video, boxes_left>>
    /\ SessionUnchanged

\* cap.read() of invocation s returns no frame: it returns its audio_log
SessionEndOfStream(s) ==
    /\ sessions[s].status = "running"
    /\ sessions[s].frame_count >= total_frames
    /\ sessions' = [sessions EXCEPT ![s].status = "returned"]
    /\ UNCHANGED <<video, boxes_left>>
    /\ SessionUnchanged

TwoNext ==
    \E s \in SessionIds :
        SessionSampledFrame(s) \/ SessionSkipFrames(s) \/ SessionEndOfStream(s)

TwoSessions == TwoInit /\ [][TwoNext]_vars

(***************************************************************************)
(* run_detection and run_detection_with_video, call by call.  One          *)
(* invocation at a time runs on the video of the model, from its entry to  *)
(* its return; up to MaxRuns invocations follow one another on the same    *)
(* video.  run holds the locals of the invocation and the history of what  *)
(* it did to the frame source, the detectors, the arbitration, the frame   *)
(* sink and the progress callback; done holds what the earlier invocations *)
(* returned, those in which no call raised.  Any call of the code may      *)
(* raise: a fault is the call that does.                                   *)
(***************************************************************************)
MaxRuns == 2     \* invocations on the same video, one after the other

EARLY_STOP == 12        \* if len(audio_log) >= 12: break
PROGRESS_EVERY == 30    \* if frame_count % 30 == 0

\* the vehicle of frame slot i: five classes in three zones, all very close
ParadeBox(i) ==
    LET cls == <<2, 5, 7, 3, 1>>[(i % 5) + 1]
        x1 == <<400, 50, 750>>[((i \div 5) % 3) + 1]
    IN  Box("yolo", cls, 90, x1, x1 + 100, 560)

\* The videos: what cap.isOpened() and cap.get() give, and for every frame
\* the boxes the three detectors return on it.
Videos ==
    << \* 3 frames a second: every frame is sampled, each shows another vehicle
      [opened |-> TRUE, fps |-> 3, w |-> 900, h |-> 600, count |-> 14,
       frames |-> [i \in 1..14 |-> <<<<ParadeBox(i - 1)>>, <<>>, <<>>>>]],
      \* 90 frames a second: every 30th frame is sampled
      [opened |-> TRUE, fps |-> 90, w |-> 900, h |-> 600, count |-> 61,
       frames |-> [i \in 1..61 |-> <<<<ParadeBox((i - 1) \div 30)>>, <<>>, <<>>>>]],
      \* a source that knows neither its frame rate nor its frame count
      [opened |-> TRUE, fps |-> 0, w |-> 900, h |-> 600, count |-> 0,
       frames |-> [i \in 1..31 |-> <<<<ParadeBox((i - 1) \div 10)>>, <<>>, <<>>>>]],
      \* 5 frames a second: every second frame is sampled; lights, a zebra
      \* crossing and frames on which the detectors find nothing
      [opened |-> TRUE, fps |-> 5, w |-> 900, h |-> 600, count |-> 5,
       frames |-> << <<<<>>, <<>>, <<>>>>,
                     <<<<ParadeBox(0)>>, <<>>, <<>>>>,
                     <<<<>>, <<Box("lights", 3, 90, 400, 500, 100)>>,
                       <<Box("zebra", 8, 90, 400, 500, 500)>>>>,
                     <<<<>>, <<>>, <<>>>>,
                     <<<<ParadeBox(1)>>, <<>>, <<Box("zebra", 8, 90, 400, 500, 500)>>>> >>],
      \* a file that cannot be opened: every property reads 0
      [opened |-> FALSE, fps |-> 0, w |-> 0, h |-> 0, count |-> 0,
       frames |-> <<>>] >>

Functions == {"run_detection", "run_detection_with_video"}

\* on_progress: None, something that is not callable, a function, a
\* function that raises
Callbacks == {"none", "not_callable", "callable", "raising"}

CallbacksOf(fn) == IF fn = "run_detection_with_video" THEN Callbacks ELSE {"none"}

Idle ==
    [pc |-> "idle", fn |-> "none", on_progress |-> "none", cap |-> "none",
     out |-> "none", frame_count |-> 0, processed_frames |-> 0,
     audio_log |-> <<>>, detection_state |-> <<>>, reads |-> 0, exc |-> <<>>,
     exit |-> "none", ret |-> <<>>, step |-> <<>>, detected |-> <<>>,
     arbitrated |-> <<>>, written |-> <<>>, progress |-> <<>>,
     faults |-> <<>>, runs |-> 0]

\* what is kept of an invocation that has returned
summary(r) ==
    [fn |-> r.fn, on_progress |-> r.on_progress, faults |-> r.faults,
     exit |-> r.exit, ret |-> r.ret]

\* audio_log = []; detection_state = {}; cap = None; out = None;
\* frame_count = 0; processed_frames = 0
entry(r, fn, cb) ==
    [Idle EXCEPT !.pc = "loop", !.fn = fn, !.on_progress = cb,
                 !.runs = r.runs + 1]

Event(op, frame) == [op |-> op, frame |-> frame]

\* a call raises: control goes to the except clause
raise(r, what) ==
    [r EXCEPT !.pc = "exit", !.exit = "exception", !.exc = <<what>>,
              !.faults = Append(@, what)]

\* what a step may do: run through, or have one of the given calls raise
FaultsAmong(r, S) == {"none"} \union S

FramesInSource == Len(Videos[scene].frames)

PipeInit ==
    /\ scene \in DOMAIN Videos
    /\ frame_w = Videos[scene].w
    /\ frame_h = Videos[scene].h
    /\ fps = fps_or_default(Videos[scene].fps)
    /\ total_frames = Videos[scene].count
    /\ frame_count = 0
    /\ processed_frames = 0
    /\ audio_log = <<>>
    /\ detection_state = <<>>
    /\ status = "none"
    /\ boxes_left = 0
    /\ emissions = <<>>
    /\ last = NoFrame
    /\ sessions = <<>>
    /\ video = [f \in 0..(FramesInSource - 1) |->
                  merge_detections(Videos[scene].frames[f + 1][1],
                                   Videos[scene].frames[f + 1][2],
                                   Videos[scene].frames[f + 1][3],
                                   Videos[scene].w, Videos[scene].h)]
    /\ run = Idle
    /\ done = <<>>
    /\ requests = <<>>
    /\ semaphore = <<>>

PipeUnchanged ==
    UNCHANGED <<scene, frame_w, frame_h, fps, total_frames, frame_count,
                processed_frames, audio_log, detection_state, status,
                boxes_left, emissions, last, sessions, video, requests,
                semaphore>>

\* a new invocation may start when none is running
CanStart ==
    /\ run.pc \in {"idle", "returned"}
    /\ run.runs < MaxRuns

Archive ==
    IF run.pc = "returned" /\ run.faults = <<>>
    THEN Append(done, summary(run))
    ELSE done

\* out = cv2.VideoWriter(...), which run_detection_with_video alone creates
create_sink(r, fault) ==
    IF r.fn # "run_detection_with_video" THEN r
    ELSE IF fault = "writer" THEN raise(r, "writer")
    ELSE [r EXCEPT !.out = "open"]

\* setup with the frame sink created ahead of the cap.isOpened() test
setup_sink_first(r, opened, fault) ==
    LET r1 == create_sink([r EXCEPT !.cap = "open"], fault)
    IN  IF r1.pc = "exit" \/ opened THEN r1
        ELSE [r1 EXCEPT !.pc = "exit", !.exit = "not_opened"]

\* cap = cv2.VideoCapture(video_path): cap is an object from here on, to be
\* released, whether the file opened or not.
\* if not cap.isOpened(): return ["Error: Could not open video file."]
setup(r, opened, fault) ==
    LET r1 == [r EXCEPT !.cap = "open"]
    IN  IF ~opened
        THEN [r1 EXCEPT !.pc = "exit", !.exit = "not_opened"]
        ELSE create_sink(r1, fault)

\* The function is called on a file that does not open.
OpenFails ==
    /\ CanStart
    /\ ~Videos[scene].opened
    /\ \E fn \in Functions : \E cb \in CallbacksOf(fn) :
          run' = setup(entry(run, fn, cb), FALSE, "none")
    /\ done' = Archive
    /\ PipeUnchanged

\* The function is called on a file that opens: the set-up down to the loop.
OpenSource ==
    /\ CanStart
    /\ Videos[scene].opened
    /\ \E fn \in Functions : \E cb \in CallbacksOf(fn) :
       \E fault \in FaultsAmong(run, IF fn = "run_detection_with_video"
                                     THEN {"writer"} ELSE {}) :
          run' = setup(entry(run, fn, cb), TRUE, fault)
    /\ done' = Archive
    /\ PipeUnchanged

\* if frame_count % 30 == 0: progress = (frame_count / max(1, total_frames))
\* * 100; try: if callable(on_progress): on_progress(progress, msg)
\* except Exception: pass.  The percentage is kept as the fraction
\* <<frame_count * 100, max(1, total_frames)>>.
progress_update_unguarded(r) ==
    IF r.frame_count % PROGRESS_EVERY # 0 THEN r
    ELSE IF r.on_progress \in {"callable", "raising", "not_callable"}
    THEN LET r1 == [r EXCEPT !.progress = Append(@,
                        [frame_count |-> r.frame_count,
                         percent |-> <<r.frame_count * 100,
                                       IF total_frames > 1 THEN total_frames ELSE 1>>]),
                        !.step = Append(@, Event("progress", r.frame_count))]
         IN  IF r.on_progress = "callable" THEN r1
             ELSE [r1 EXCEPT !.pc = "exit", !.exit = "exception",
                             !.exc = <<"on_progress">>]
    ELSE r

\* progress_update at every 30th sampled frame
progress_update_on_processed(r) ==
    IF r.processed_frames % PROGRESS_EVERY # 0 THEN r
    ELSE IF r.on_progress \in {"callable", "raising"}
    THEN [r EXCEPT !.progress = Append(@,
                       [frame_count |-> r.frame_count,
                        percent |-> <<r.frame_count * 100,
                                      IF total_frames > 1 THEN total_frames ELSE 1>>]),
                   !.step = Append(@, Event("progress", r.frame_count))]
    ELSE r

progress_update(r) ==
    IF r.frame_count % PROGRESS_EVERY # 0 THEN r
    ELSE IF r.on_progress \in {"callable", "raising"}
    THEN [r EXCEPT !.progress = Append(@,
                       [frame_count |-> r.frame_count,
                        percent |-> <<r.frame_count * 100,
                                      IF total_frames > 1 THEN total_frames ELSE 1>>]),
                   !.step = Append(@, Event("progress", r.frame_count))]
    ELSE r

\* steps 1 to 3 on the frame held: the three detectors run on it
detect(r, f) ==
    [r EXCEPT !.detected = Append(@, f),
              !.step = Append(@, Event("detect", f))]

\* grouped = group_detections(detections); if detections: audio_message =
\* generate_audio_message(grouped, frame_count, fps, detection_state);
\* if audio_message: audio_log.append(audio_message); processed_frames += 1
\* with processed_frames as the frame index
arbitrate_by_processed(r, detections) ==
    LET res == frame_result(detections, r.processed_frames, r.detection_state)
    IN  [r EXCEPT !.detection_state = res.state,
                  !.audio_log = append_message(@, res.ret),
                  !.processed_frames = @ + 1,
                  !.arbitrated = IF detections # <<>>
                                 THEN Append(@, r.processed_frames) ELSE @,
                  !.step = IF detections # <<>>
                           THEN Append(@, Event("arbitrate", r.processed_frames))
                           ELSE @]

arbitrate(r, detections) ==
    LET res == frame_result(detections, r.frame_count, r.detection_state)
    IN  [r EXCEPT !.detection_state = res.state,
                  !.audio_log = append_message(@, res.ret),
                  !.processed_frames = @ + 1,
                  !.arbitrated = IF detections # <<>>
                                 THEN Append(@, r.frame_count) ELSE @,
                  !.step = IF detections # <<>>
                           THEN Append(@, Event("arbitrate", r.frame_count))
                           ELSE @]

\* out.write(annotated_frame) on a sampled frame, out.write(frame) otherwise
write(r, f, annotated) ==
    [r EXCEPT !.written = Append(@, [frame |-> f, annotated |-> annotated]),
              !.step = Append(@, Event(IF annotated THEN "write_annotated"
                                       ELSE "write_original", f))]

\* ret, frame = cap.read() gave frame f
read(r, f) ==
    [r EXCEPT !.reads = @ + 1, !.step = <<Event("read", f)>>]

\* frame_count += 1
advance(r) == [r EXCEPT !.frame_count = @ + 1]

\* early_stop that lets the log pass twelve messages before it breaks
early_stop_late(r) ==
    IF Len(r.audio_log) > EARLY_STOP
    THEN [r EXCEPT !.pc = "exit", !.exit = "early_stop"]
    ELSE r

\* if len(audio_log) >= 12: break, in run_detection alone
early_stop(r) ==
    IF Len(r.audio_log) >= EARLY_STOP
    THEN [r EXCEPT !.pc = "exit", !.exit = "early_stop"]
    ELSE r

\* the body of the loop of run_detection on frame f, sampled
sampled_plain(r, f, fault) ==
    IF fault = "detect" THEN raise(read(r, f), "detect")
    ELSE early_stop(advance(arbitrate(detect(read(r, f), f), video[f])))

\* the body of the loop of run_detection_with_video on frame f, sampled
sampled_with_video(r, f, fault) ==
    IF fault = "detect" THEN raise(read(r, f), "detect")
    ELSE LET r1 == arbitrate(detect(read(r, f), f), video[f])
         IN  IF fault = "write" THEN raise(r1, "write")
             ELSE progress_update(advance(write(r1, f, TRUE)))

\* the body of the loop of run_detection on frame f, not sampled:
\* frame_count += 1; continue
skipped_plain(r, f) == advance(read(r, f))

\* the body of the loop of run_detection_with_video on frame f, not sampled,
\* which forgets to write the frame
skipped_unwritten(r, f, fault) == progress_update(advance(read(r, f)))

\* the body of the loop of run_detection_with_video on frame f, not sampled
skipped_with_video(r, f, fault) ==
    IF fault = "write" THEN raise(read(r, f), "write")
    ELSE progress_update(advance(write(read(r, f), f, FALSE)))

InLoop == run.pc = "loop"

\* One iteration of the loop on a sampled frame.
PipeSampledFrame ==
    /\ InLoop
    /\ run.reads < FramesInSource
    /\ should_process(run.frame_count, fps)
    /\ \E fault \in FaultsAmong(run, IF run.fn = "run_detection_with_video"
                                     THEN {"detect", "write"} ELSE {"detect"}) :
          run' = IF run.fn = "run_detection_with_video"
                 THEN sampled_with_video(run, run.reads, fault)
                 ELSE sampled_plain(run, run.reads, fault)
    /\ UNCHANGED done
    /\ PipeUnchanged

\* One iteration of the loop on a frame that is not sampled.
PipeSkippedFrame ==
    /\ InLoop
    /\ run.reads < FramesInSource
    /\ ~should_process(run.frame_count, fps)
    /\ \E fault \in FaultsAmong(run, IF run.fn = "run_detection_with_video"
                                     THEN {"write"} ELSE {}) :
          run' = IF run.fn = "run_detection_with_video"
                 THEN skipped_with_video(run, run.reads, fault)
                 ELSE skipped_plain(run, run.reads)
    /\ UNCHANGED done
    /\ PipeUnchanged

\* cap.read() raises
ReadFails ==
    /\ InLoop
    /\ run' = raise([run EXCEPT !.step = <<>>], "read")
    /\ UNCHANGED done
    /\ PipeUnchanged

\* cap.read() returns no frame: break
PipeEndOfStream ==
    /\ InLoop
    /\ run.reads >= FramesInSource
    /\ run' = [run EXCEPT !.pc = "exit", !.exit = "end_of_stream", !.step = <<>>]
    /\ UNCHANGED done
    /\ PipeUnchanged

\* the except clause putting the diagnostic in place of the log
except_discarding(r) ==
    IF r.exc # <<>>
    THEN [r EXCEPT !.audio_log =
             <<"An error occurred during processing: " \o r.exc[1]>>]
    ELSE r

\* except Exception as e: audio_log.append(f"An error occurred during
\* processing: {e}")
except(r) ==
    IF r.exc # <<>>
    THEN [r EXCEPT !.audio_log =
             Append(@, "An error occurred during processing: " \o r.exc[1])]
    ELSE r

\* finally: try: if cap is not None: cap.release(); if out is not None:
\* out.release() except Exception: pass.  A release call that raises leaves
\* the try statement: what comes after it in the try is not run.
finally(r, cap_raises, out_raises) ==
    LET r1 == IF r.cap = "none" THEN r
              ELSE [r EXCEPT !.cap = IF cap_raises THEN "release_raised"
                                     ELSE "released"]
    IN  IF r1.cap = "release_raised" \/ r1.out = "none" THEN r1
        ELSE [r1 EXCEPT !.out = IF out_raises THEN "release_raised"
                                ELSE "released"]

\* return ["Error: Could not open video file."] in the try, return
\* audio_log after it
return(r) ==
    [r EXCEPT !.pc = "returned",
              !.ret = IF r.exit = "not_opened"
                      THEN <<"Error: Could not open video file.">>
                      ELSE r.audio_log]

\* The function leaves the try: the except clause if a call raised, the
\* finally clause, the return.
Return ==
    /\ run.pc = "exit"
    /\ \E cap_raises \in BOOLEAN :
       \E out_raises \in {FALSE} \union
              (IF ~cap_raises /\ run.out # "none" THEN {TRUE} ELSE {}) :
          LET r1 == finally(except(run), cap_raises, out_raises)
          IN  run' = return([r1 EXCEPT
                         !.faults = @ \o (IF cap_raises THEN <<"cap.release">> ELSE <<>>)
                                      \o (IF out_raises THEN <<"out.release">> ELSE <<>>)])
    /\ UNCHANGED done
    /\ PipeUnchanged

PipeNext ==
    \/ OpenFails
    \/ OpenSource
    \/ PipeSampledFrame
    \/ PipeSkippedFrame
    \/ ReadFails
    \/ PipeEndOfStream
    \/ Return

PipeSpec == PipeInit /\ [][PipeNext]_vars

(***************************************************************************)
(* The admission gate of the server (main.py, routers/detection.py).  The  *)
(* two video endpoints call run_detection_with_video inside 'async with    *)
(* request.app.state.semaphore', an asyncio.Semaphore of max_concurrency   *)
(* permits: a request that finds no free permit, or finds requests         *)
(* waiting, waits in a first-come queue; a release frees a permit, which   *)
(* the event loop hands to the head of the queue.  requests[r].at says     *)
(* where request r is; a session ends by returning or by raising.          *)
(***************************************************************************)
MaxRequests == 3   \* detection requests the server receives
MaxCpus == 4       \* os.cpu_count() of the machines of the model

RequestIds == 1..MaxRequests

Endpoints == {"detect_video", "detect_video_with_audio"}

\* app.state.max_concurrency = max(1, (os.cpu_count() or 2) // 2), where
\* os.cpu_count() is None (here 0) when the count is unknown
max_concurrency(cpu_count) ==
    LET n == (IF cpu_count = 0 THEN 2 ELSE cpu_count) \div 2
    IN  IF n > 1 THEN n ELSE 1

NoRequest == [at |-> "none", endpoint |-> "none", waited |-> FALSE]

\* app.state.semaphore = asyncio.Semaphore(app.state.max_concurrency)
GateInit ==
    /\ scene = 0
    /\ frame_w = 0
    /\ frame_h = 0
    /\ fps = 0
    /\ total_frames = 0
    /\ frame_count = 0
    /\ processed_frames = 0
    /\ audio_log = <<>>
    /\ detection_state = <<>>
    /\ status = "none"
    /\ boxes_left = 0
    /\ emissions = <<>>
    /\ last = NoFrame
    /\ sessions = <<>>
    /\ video = <<>>
    /\ run = <<>>
    /\ done = <<>>
    /\ requests = [r \in RequestIds |-> NoRequest]
    /\ \E cpu_count \in 0..MaxCpus :
          semaphore = [cpu_count |-> cpu_count,
                       value |-> max_concurrency(cpu_count),
                       waiters |-> <<>>]

GateUnchanged ==
    UNCHANGED <<scene, frame_w, frame_h, fps, total_frames, frame_count,
                processed_frames, audio_log, detection_state, status,
                boxes_left, emissions, last, sessions, video, run, done>>

\* Semaphore.locked(): no permit is free, or requests wait for one
locked(sem) == sem.value = 0 \/ sem.waiters # <<>>

\* async with semaphore, on entry: acquire() takes a permit or queues r
acquire(sem, r) ==
    IF ~locked(sem)
    THEN [sem EXCEPT !.value = @ - 1]
    ELSE [sem EXCEPT !.waiters = Append(@, r)]

\* a release that the exit by an exception skips
release_on_return(sem, outcome) ==
    IF outcome = "raised" THEN sem ELSE [sem EXCEPT !.value = @ + 1]

\* async with semaphore, on exit by return or by exception: release()
release(sem, outcome) == [sem EXCEPT !.value = @ + 1]

\* A request reaches 'async with request.app.state.semaphore'.
Request(r) ==
    /\ requests[r].at = "none"
    /\ \E e \in Endpoints :
          requests' = [requests EXCEPT ![r] =
              [at |-> IF locked(semaphore) THEN "waiting" ELSE "running",
               endpoint |-> e, waited |-> locked(semaphore)]]
    /\ semaphore' = acquire(semaphore, r)
    /\ GateUnchanged

\* The event loop resumes the request at the head of the queue, which takes
\* the permit that was freed and calls run_detection_with_video.
Admit ==
    /\ semaphore.waiters # <<>>
    /\ semaphore.value > 0
    /\ requests' = [requests EXCEPT ![Head(semaphore.waiters)].at = "running"]
    /\ semaphore' = [semaphore EXCEPT !.value = @ - 1, !.waiters = Tail(@)]
    /\ GateUnchanged

\* run_in_threadpool(run_detection_with_video, ...) returns or raises: the
\* request leaves the async with block.
SessionEnds(r) ==
    /\ requests[r].at = "running"
    /\ \E outcome \in {"returned", "raised"} :
          /\ requests' = [requests EXCEPT ![r].at = outcome]
          /\ semaphore' = release(semaphore, outcome)
    /\ GateUnchanged

GateNext ==
    \/ \E r \in RequestIds : Request(r)
    \/ Admit
    \/ \E r \in RequestIds : SessionEnds(r)

\* The event loop runs a request that has been handed a permit, and a
\* session on a video comes to its end.
GateSpec ==
    /\ GateInit
    /\ [][GateNext]_vars
    /\ WF_vars(Admit)
    /\ \A r \in RequestIds : WF_vars(SessionEnds(r))

(***************************************************************************)
(* Properties.                                                             *)
(***************************************************************************)
Sampled == last.kind = "sampled"

\* C1: every sampled frame yields None or exactly one message, which is
\* one of the frame's candidates, and the log grows by at most one message
\* per processed frame.
C1_AtMostOneMessagePerFrame ==
    /\ Len(last.ret) <= 1
    /\ \A i \in 1..Len(last.ret) :
          \E j \in 1..Len(last.cands) : last.ret[i] = last.cands[j].msg
    /\ Len(audio_log) <= processed_frames
    /\ Sampled => /\ Len(audio_log) >= Len(last.ret)
                  /\ \A i \in 1..Len(last.ret) :
                        audio_log[Len(audio_log) - Len(last.ret) + i] = last.ret[i]

\* a frame with several candidates has put one message in the log
C1_Witness ==
    /\ Sampled
    /\ Len(last.cands) >= 2
    /\ Len(last.ret) = 1
    /\ audio_log # <<>>

\* C2: two frames in which the same key's message is the emitted one are
\* at least 120 frame indices apart.
C2_EmissionsOfAKeyAreAWindowApart ==
    \A i, j \in 1..Len(emissions) :
        (i < j /\ emissions[i].key = emissions[j].key)
            => emissions[j].frame - emissions[i].frame >= 120

\* a key emitted twice in one session
C2_Witness ==
    \E i, j \in 1..Len(emissions) :
        /\ i < j
        /\ emissions[i].key = emissions[j].key
        /\ emissions[j].frame = emissions[i].frame + 120

\* C3: when a Red Light bucket passes should_announce, the frame emits the
\* red-light message, whatever else is in the frame.
C3_RedLightWins ==
    Sampled =>
        ((\E i \in 1..Len(last.calls) :
              last.calls[i].key[1] = "Red Light" /\ last.calls[i].ret)
            => last.ret = <<"Red light ahead. Stop and wait.">>)

\* a red light announced in a frame that also holds a priority-10 vehicle
C3_Witness ==
    /\ Sampled
    /\ \E i \in 1..Len(last.calls) :
          last.calls[i].key[1] = "Red Light" /\ last.calls[i].ret
    /\ \E j \in 1..Len(last.cands) :
          last.cands[j].stage = "center" /\ last.cands[j].priority = 10
    /\ last.ret = <<"Red light ahead. Stop and wait.">>

StageRank(stage) ==
    CASE stage = "lights" -> 1
      [] stage = "center" -> 2
      [] stage = "left" -> 3
      [] stage = "right" -> 4
      [] stage = "zebra" -> 5
      [] stage = "person" -> 6

\* C4: the message returned is the first, in evaluation order, of the
\* candidates of the highest priority; the candidates are produced in the
\* order lights, center, left, right, zebra, person; no candidate, no message.
C4_StableMaximum ==
    Sampled =>
        /\ last.cands = <<>> => last.ret = <<>> /\ last.win = 0
        /\ last.cands # <<>> =>
              /\ last.win \in 1..Len(last.cands)
              /\ last.ret = <<last.cands[last.win].msg>>
              /\ \A j \in 1..Len(last.cands) :
                    last.cands[j].priority <= last.cands[last.win].priority
              /\ \A j \in 1..(last.win - 1) :
                    last.cands[j].priority < last.cands[last.win].priority
        /\ \A i, j \in 1..Len(last.cands) :
              i < j => StageRank(last.cands[i].stage) <= StageRank(last.cands[j].stage)

\* a tie at the highest priority between two blocks, won by the earlier one
C4_Witness ==
    /\ Sampled
    /\ last.win # 0
    /\ \E j \in 1..Len(last.cands) :
          /\ j > last.win
          /\ last.cands[j].priority = last.cands[last.win].priority
          /\ last.cands[j].stage # last.cands[last.win].stage
    /\ \E j \in 1..Len(last.cands) :
          last.cands[j].priority < last.cands[last.win].priority

\* C5: last_announced of a key is set or advanced in a frame only if the
\* key's message is the one emitted for that frame: it is always a frame
\* at which the key's message was emitted.
C5_LastAnnouncedOnlyWhenEmitted ==
    \A k \in DOMAIN detection_state :
        \E i \in 1..Len(emissions) :
            /\ emissions[i].key = k
            /\ emissions[i].frame = detection_state[k].last_announced

CalledKeys(calls) == {calls[i].key : i \in 1..Len(calls)}

NewEntry(frame) ==
    [first_frame |-> frame, last_frame |-> frame, last_announced |-> frame,
     count |-> 1]

\* C6: a call of should_announce with a key absent from the state returns
\* true and creates the entry first_frame = last_frame = last_announced =
\* current_frame, count = 1; the entries of the keys not called are
\* unchanged.  (A frame calls it at most once per key, so the effect of a
\* frame on a key is the effect of that one call.)
C6_FirstOccurrence ==
    [][ last'.kind = "sampled" =>
          /\ \A i, j \in 1..Len(last'.calls) :
                i # j => last'.calls[i].key # last'.calls[j].key
          /\ \A i \in 1..Len(last'.calls) :
                LET k == last'.calls[i].key
                IN  k \notin DOMAIN detection_state =>
                       /\ last'.calls[i].ret = TRUE
                       /\ k \in DOMAIN detection_state'
                       /\ detection_state'[k] = NewEntry(last'.frame)
          /\ DOMAIN detection_state' =
                DOMAIN detection_state \cup CalledKeys(last'.calls)
          /\ \A k \in DOMAIN detection_state \ CalledKeys(last'.calls) :
                detection_state'[k] = detection_state[k]
      ]_vars

\* a key first seen in a later frame, beside an older entry left as it was
C6_Witness ==
    /\ Sampled
    /\ last.frame > 0
    /\ \E i \in 1..Len(last.calls) :
          /\ last.calls[i].ret
          /\ detection_state[last.calls[i].key] = NewEntry(last.frame)
    /\ \E k \in DOMAIN detection_state \ CalledKeys(last.calls) :
          detection_state[k] = NewEntry(0)

\* C7: a call with a key already in the state sets last_frame, adds one to
\* count, and returns true, setting last_announced, exactly when
\* current_frame - last_announced >= 120; otherwise it returns false and
\* leaves last_announced.
C7_RepeatedOccurrence ==
    [][ last'.kind = "sampled" =>
          \A i \in 1..Len(last'.calls) :
              LET k == last'.calls[i].key
                  f == last'.frame
              IN  k \in DOMAIN detection_state =>
                     /\ detection_state'[k].last_frame = f
                     /\ detection_state'[k].count = detection_state[k].count + 1
                     /\ detection_state'[k].first_frame = detection_state[k].first_frame
                     /\ last'.calls[i].ret =
                           (f - detection_state[k].last_announced >= 120)
                     /\ detection_state'[k].last_announced =
                           IF f - detection_state[k].last_announced >= 120
                           THEN f
                           ELSE detection_state[k].last_announced
      ]_vars

\* a key announced at frame 0, suppressed at frame 60, announced at frame 120
C7_Witness ==
    /\ Sampled
    /\ last.frame = 120
    /\ \E i \in 1..Len(last.calls) :
          /\ last.calls[i].ret
          /\ detection_state[last.calls[i].key] =
                [first_frame |-> 0, last_frame |-> 120, last_announced |-> 120,
                 count |-> 3]

\* the detections of a frame as the claim reads them: those below 0.7
\* dropped, the others all taken as equally confident
AtThreshold(dets) ==
    LET kept == SelectSeq(dets, LAMBDA d : d.conf >= 70)
    IN  [i \in 1..Len(kept) |-> [kept[i] EXCEPT !.conf = 100]]

\* C8: a detection of confidence exactly 0.7 counts like any confident one,
\* and a detection below 0.7 has no effect on the message of the frame (its
\* text, count and priority) or on the announcement state: the frame yields
\* what it yields without the detections below 0.7.
C8_BelowThresholdHasNoEffect ==
    [][ last'.kind = "sampled" =>
          LET r == frame_result(AtThreshold(last'.detections), last'.frame,
                               detection_state)
          IN  /\ last'.ret = r.ret
              /\ detection_state' = r.state
      ]_vars

\* the half of C8 that holds: 0.7 itself passes every stage
C8_ThresholdIncluded ==
    [][ last'.kind = "sampled" =>
          LET raised == [i \in 1..Len(last'.detections) |->
                            IF last'.detections[i].conf = 70
                            THEN [last'.detections[i] EXCEPT !.conf = 100]
                            ELSE last'.detections[i]]
              r == frame_result(raised, last'.frame, detection_state)
          IN  /\ last'.ret = r.ret
              /\ detection_state' = r.state
      ]_vars

(***************************************************************************)
(* The buckets of a frame, read off its list of detections.                *)
(***************************************************************************)
KeyOf(d) == <<d.label, d.horiz, d.depth>>

Members(dets, k) == {i \in 1..Len(dets) : KeyOf(dets[i]) = k}

\* bucket[0]: the first detection of the key in the list
Rep(dets, k) ==
    dets[CHOOSE i \in Members(dets, k) : \A j \in Members(dets, k) : i <= j]

Vehicles == {"Car", "Bus", "Truck", "Motorcycle", "Bicycle"}

\* the vehicle buckets of a zone whose confidence is at least 0.7
ZoneKeys(dets, zone) ==
    {k \in {KeyOf(dets[i]) : i \in 1..Len(dets)} :
        k[1] \in Vehicles /\ k[2] = zone /\ Rep(dets, k).conf >= 70}

\* "A Car", "2 Cars"
Counted(dets, k) ==
    IF Cardinality(Members(dets, k)) > 1
    THEN ToString(Cardinality(Members(dets, k))) \o " " \o k[1] \o "s"
    ELSE "A " \o k[1]

StageCands(cands, stage) == SelectSeq(cands, LAMBDA c : c.stage = stage)

\* The rule of one zone on the frame l (a value of last): at most one
\* candidate, from a nearest confident bucket of the zone that passed
\* should_announce, with priority hi and text close when proximity > 0.75,
\* priority lo and text near when 0.5 < proximity <= 0.75, none otherwise;
\* no other bucket of the zone is passed to should_announce.
ZoneRule(l, zone, hi, close_pre, close_post, lo, near_pre, near_post) ==
    LET dets == l.detections
        keys == ZoneKeys(dets, zone)
        mine == StageCands(l.cands, zone)
        called == {i \in 1..Len(l.calls) :
                      l.calls[i].key[1] \in Vehicles /\ l.calls[i].key[2] = zone}
    IN  /\ Len(mine) <= 1
        /\ Cardinality(called) = IF keys = {} THEN 0 ELSE 1
        /\ \A i \in called :
              LET k == l.calls[i].key
                  y == Rep(dets, k).y2
              IN  /\ k \in keys
                  /\ \A k2 \in keys : Rep(dets, k2).y2 <= y
                  /\ (l.calls[i].ret /\ 4 * y > 3 * frame_h) =>
                        mine = <<[msg |-> close_pre \o Counted(dets, k) \o close_post,
                                  priority |-> hi, key |-> k, stage |-> zone]>>
                  /\ (l.calls[i].ret /\ 2 * y > frame_h /\ 4 * y <= 3 * frame_h) =>
                        mine = <<[msg |-> near_pre \o Counted(dets, k) \o near_post,
                                  priority |-> lo, key |-> k, stage |-> zone]>>
                  /\ (~l.calls[i].ret \/ 2 * y <= frame_h) => mine = <<>>
        /\ called = {} => mine = <<>>

\* C9: of the confident center vehicle buckets only the nearest can give a
\* candidate, and only if it passes should_announce: priority 10 "Watch
\* out! ..." above 0.75, priority 8 "Careful! ..." in (0.5, 0.75], none at
\* or below 0.5.  A lone Car at cx = 450, y2 = 560 of a 900x600 frame in a
\* fresh session emits "Watch out! A Car right in front of you! Stay where
\* you are!".
C9_CenterVehicles ==
    Sampled =>
        /\ ZoneRule(last, "center",
                    10, "Watch out! ", " right in front of you! Stay where you are!",
                    8, "Careful! ", " coming towards you.")
        /\ ( /\ processed_frames = 1
             /\ frame_w = 900 /\ frame_h = 600
             /\ Len(last.detections) = 1
             /\ last.detections[1].label = "Car"
             /\ last.detections[1].conf >= 70
             /\ last.detections[1].x1 + last.detections[1].x2 = 2 * 450
             /\ last.detections[1].y2 = 560 )
           => last.ret = <<"Watch out! A Car right in front of you! Stay where you are!">>

\* two confident center buckets at different distances, the nearer one an
\* approaching vehicle counted twice
C9_Witness ==
    /\ Sampled
    /\ \E k1, k2 \in ZoneKeys(last.detections, "center") :
          Rep(last.detections, k1).y2 < Rep(last.detections, k2).y2
    /\ \E i \in 1..Len(last.cands) :
          /\ last.cands[i].stage = "center"
          /\ last.cands[i].priority = 8
          /\ Cardinality(Members(last.detections, last.cands[i].key)) = 2

SwapSide(z) == IF z = "left" THEN "right" ELSE IF z = "right" THEN "left" ELSE z

MirrorKey(k) == <<k[1], SwapSide(k[2]), k[3]>>

\* the detection of the box reflected about the vertical axis of the frame
MirrorDet(d, w, h) ==
    LET pos == get_position(w - d.x2, w - d.x1, d.y2, w, h)
    IN  [d EXCEPT !.x1 = w - d.x2, !.x2 = w - d.x1,
                  !.horiz = pos[1], !.depth = pos[2]]

MirrorState(st) ==
    [k \in {MirrorKey(j) : j \in DOMAIN st} |-> st[MirrorKey(k)]]

\* candidates without their text
Shape(cands) == [i \in 1..Len(cands) |->
                    <<cands[i].priority, cands[i].key, cands[i].stage>>]

MirrorShape(cands) == [i \in 1..Len(cands) |->
                    <<cands[i].priority, MirrorKey(cands[i].key),
                      SwapSide(cands[i].stage)>>]

\* C10: left and right are handled alike: per side only the nearest
\* confident bucket that passes should_announce gives a candidate, priority
\* 9 above 0.75, priority 7 in (0.5, 0.75], none at or below 0.5; reflecting
\* the input left-right swaps the sides of the candidates and nothing else;
\* the candidate of a side does not depend on the vehicles of other zones.
C10_LeftRightSymmetric ==
    [][ last'.kind = "sampled" =>
          LET dets == last'.detections
              mirrored == frame_result(
                 [i \in 1..Len(dets) |-> MirrorDet(dets[i], frame_w, frame_h)],
                 last'.frame, MirrorState(detection_state))
              alone(zone) == frame_result(
                 SelectSeq(dets, LAMBDA d : d.label \notin Vehicles \/ d.horiz = zone),
                 last'.frame, detection_state)
          IN  /\ ZoneRule(last', "left",
                          9, "Warning! ", " on your left side! Don't move!",
                          7, "", " approaching on your left.")
              /\ ZoneRule(last', "right",
                          9, "Warning! ", " on your right side! Don't move!",
                          7, "", " approaching on your right.")
              /\ Shape(StageCands(mirrored.cands, "left")) =
                    MirrorShape(StageCands(last'.cands, "right"))
              /\ Shape(StageCands(mirrored.cands, "right")) =
                    MirrorShape(StageCands(last'.cands, "left"))
              /\ mirrored.state = MirrorState(detection_state')
              /\ \A zone \in {"left", "right"} :
                    StageCands(alone(zone).cands, zone) = StageCands(last'.cands, zone)
      ]_vars

\* a frame with a candidate on each side, of different priorities, and a
\* farther bucket on the left that gives none
C10_Witness ==
    /\ Sampled
    /\ \E i, j \in 1..Len(last.cands) :
          /\ last.cands[i].stage = "left" /\ last.cands[i].priority = 9
          /\ last.cands[j].stage = "right" /\ last.cands[j].priority = 7
    /\ Cardinality(ZoneKeys(last.detections, "left")) = 2

(***************************************************************************)
(* Zebra crossings and people.                                             *)
(***************************************************************************)
SafeToCross == "Zebra crossing in front of you. No vehicles nearby. You can cross now."

WaitForVehicles == "Zebra crossing ahead, but vehicles are nearby. Wait for them to pass."

AllKeys(dets) == {KeyOf(dets[i]) : i \in 1..Len(dets)}

\* the zebra-crossing buckets whose confidence is at least 0.7
ZebraKeys(dets) ==
    {k \in AllKeys(dets) : k[1] = "Zebra Crossing" /\ Rep(dets, k).conf >= 70}

\* a zebra-crossing bucket of confidence >= 0.7 passed should_announce
ZebraPassed(l) ==
    \E i \in 1..Len(l.calls) :
        /\ l.calls[i].key \in ZebraKeys(l.detections)
        /\ l.calls[i].ret

\* C11: when a zebra-crossing bucket of confidence >= 0.7 passes
\* should_announce in a frame and no vehicle of the frame, in any zone, has
\* proximity > 0.6, the candidates of the frame include the priority-7
\* message "safe to cross".
C11_SafeToCrossWithoutNearbyVehicle ==
    ( /\ Sampled
      /\ ZebraPassed(last)
      /\ \A i \in 1..Len(last.detections) :
            last.detections[i].label \in Vehicles
                => 10 * last.detections[i].y2 <= 6 * frame_h )
    => \E j \in 1..Len(last.cands) :
          last.cands[j].priority = 7 /\ last.cands[j].msg = SafeToCross

\* C12: when a zebra-crossing bucket of confidence >= 0.7 is in the frame
\* together with a vehicle bucket of confidence >= 0.7 (any zone) whose
\* proximity is > 0.6, "safe to cross" is not a candidate of the frame, and
\* the priority-8 "wait" message is a candidate exactly when the zebra key
\* passes should_announce.
C12_WaitWhenVehiclesNearby ==
    ( /\ Sampled
      /\ ZebraKeys(last.detections) # {}
      /\ \E z \in {"left", "center", "right"} :
            \E k \in ZoneKeys(last.detections, z) :
                10 * Rep(last.detections, k).y2 > 6 * frame_h )
        => /\ \A j \in 1..Len(last.cands) : last.cands[j].msg # SafeToCross
           /\ (\E j \in 1..Len(last.cands) :
                  /\ last.cands[j].msg = WaitForVehicles
                  /\ last.cands[j].priority = 8
                  /\ last.cands[j].key \in ZebraKeys(last.detections))
              <=> ZebraPassed(last)
           /\ \A j \in 1..Len(last.cands) :
                  last.cands[j].stage = "zebra" => last.cands[j].msg = WaitForVehicles

\* a crossing with a vehicle nearby: the frame is told to wait
C12_Witness ==
    /\ Sampled
    /\ ZebraPassed(last)
    /\ \E k \in ZoneKeys(last.detections, "center") :
          10 * Rep(last.detections, k).y2 > 6 * frame_h
    /\ \E j \in 1..Len(last.cands) :
          last.cands[j].msg = WaitForVehicles /\ last.cands[j].priority = 8

\* the crossing seen again within the window, a vehicle nearby: no candidate
C12_SuppressedWitness ==
    /\ Sampled
    /\ last.frame > 0
    /\ \E k \in ZoneKeys(last.detections, "center") :
          10 * Rep(last.detections, k).y2 > 6 * frame_h
    /\ \E i \in 1..Len(last.calls) :
          last.calls[i].key \in ZebraKeys(last.detections) /\ ~last.calls[i].ret
    /\ StageCands(last.cands, "zebra") = <<>>

\* the frame l holds one detection, a zebra crossing of confidence 0.8
LoneZebra(l) ==
    /\ l.kind = "sampled"
    /\ Len(l.detections) = 1
    /\ l.detections[1].label = "Zebra Crossing"
    /\ l.detections[1].conf = 80

\* C13: in a fresh session a frame whose only detection is a zebra crossing
\* of confidence 0.8 emits exactly "safe to cross"; the same frame less than
\* 120 frame indices after that emission emits nothing.
C13_LoneZebraCrossing ==
    [][ LoneZebra(last') =>
          /\ DOMAIN detection_state = {} => last'.ret = <<SafeToCross>>
          /\ (\E i \in 1..Len(emissions) :
                 /\ emissions[i].key = KeyOf(last'.detections[1])
                 /\ emissions[i].msg = SafeToCross
                 /\ last'.frame - emissions[i].frame < 120)
             => last'.ret = <<>>
      ]_vars

\* the lone crossing of frame 0 seen again 119 frames later, in silence
C13_Witness ==
    /\ LoneZebra(last)
    /\ last.frame = 119
    /\ last.ret = <<>>
    /\ Len(emissions) = 1
    /\ emissions[1].frame = 0
    /\ emissions[1].key = KeyOf(last.detections[1])
    /\ emissions[1].msg = SafeToCross

\* the person buckets whose confidence is at least 0.7
PersonKeys(dets) ==
    {k \in AllKeys(dets) : k[1] = "Person" /\ Rep(dets, k).conf >= 70}

\* "Person ahead.", "2 people left."
PersonText(dets, k) ==
    (IF Cardinality(Members(dets, k)) > 1
     THEN ToString(Cardinality(Members(dets, k))) \o " people"
     ELSE "Person")
    \o " " \o (IF k[2] = "center" THEN "ahead" ELSE k[2]) \o "."

\* C14: a frame has at most one person candidate; it has priority 4, is
\* about the person bucket of the highest proximity among those of
\* confidence >= 0.7, that proximity is > 0.75, the bucket's key passed
\* should_announce, and the text names the zone and the count.  Two persons
\* at cx = 100, y2 = 200 of a 900x600 frame give no message.
C14_NearestPersonOnly ==
    Sampled =>
        LET dets == last.detections
            mine == StageCands(last.cands, "person")
        IN  /\ Len(mine) <= 1
            /\ \A j \in 1..Len(last.cands) :
                  last.cands[j].priority = 4 <=> last.cands[j].stage = "person"
            /\ \A j \in 1..Len(mine) :
                  LET k == mine[j].key
                  IN  /\ k \in PersonKeys(dets)
                      /\ \A k2 \in PersonKeys(dets) :
                            Rep(dets, k2).y2 <= Rep(dets, k).y2
                      /\ 4 * Rep(dets, k).y2 > 3 * frame_h
                      /\ \E i \in 1..Len(last.calls) :
                            last.calls[i].key = k /\ last.calls[i].ret
                      /\ mine[j].msg = PersonText(dets, k)
            /\ ( /\ frame_w = 900 /\ frame_h = 600
                 /\ Len(dets) = 2
                 /\ \A i \in 1..2 : /\ dets[i].label = "Person"
                                    /\ dets[i].x1 + dets[i].x2 = 2 * 100
                                    /\ dets[i].y2 = 200 )
               => last.ret = <<>>

\* two people ahead, very close, announced beside a farther person bucket
C14_Witness ==
    /\ Sampled
    /\ Cardinality(PersonKeys(last.detections)) = 2
    /\ last.ret = <<"2 people ahead.">>

\* the two far persons on the left, in silence
C14_FarPersonsWitness ==
    /\ Sampled
    /\ Len(last.detections) = 2
    /\ \A i \in 1..2 : /\ last.detections[i].label = "Person"
                       /\ last.detections[i].x1 + last.detections[i].x2 = 200
                       /\ last.detections[i].y2 = 200
    /\ last.ret = <<>>

(***************************************************************************)
(* Geometry.                                                               *)
(***************************************************************************)
\* C15: for a frame of positive width and height every box gets exactly
\* one horizontal zone and one depth zone: left iff cx < frame_w/3, right
\* iff cx > 2*frame_w/3, center otherwise, both boundaries included; very
\* close iff y2 > 0.75*frame_h, approaching iff 0.5*frame_h < y2 <=
\* 0.75*frame_h, far otherwise; y2 on a boundary is in the farther zone.
\* (twice is 2*cx = x1 + x2.)
C15_ZonesPartitionTheFrame ==
    (Sampled /\ frame_w > 0 /\ frame_h > 0) =>
        \A i \in 1..Len(last.detections) :
            LET d == last.detections[i]
                twice == d.x1 + d.x2
            IN  /\ d.horiz \in {"left", "center", "right"}
                /\ d.depth \in {"very close", "approaching", "far"}
                /\ d.horiz = "left" <=> 3 * twice < 2 * frame_w
                /\ d.horiz = "right" <=> 3 * twice > 4 * frame_w
                /\ (3 * twice = 2 * frame_w \/ 3 * twice = 4 * frame_w)
                      => d.horiz = "center"
                /\ d.depth = "very close" <=> 4 * d.y2 > 3 * frame_h
                /\ d.depth = "approaching" <=>
                      (2 * d.y2 > frame_h /\ 4 * d.y2 <= 3 * frame_h)
                /\ 4 * d.y2 = 3 * frame_h => d.depth = "approaching"
                /\ 2 * d.y2 = frame_h => d.depth = "far"

\* a box on the left boundary and on the boundary of the very close zone
C15_Witness ==
    /\ Sampled
    /\ frame_w > 0 /\ frame_h > 0
    /\ \E i \in 1..Len(last.detections) :
          LET d == last.detections[i]
          IN  /\ 3 * (d.x1 + d.x2) = 2 * frame_w
              /\ 4 * d.y2 = 3 * frame_h
              /\ d.horiz = "center"
              /\ d.depth = "approaching"

\* C16: with a frame of zero width or zero height the geometry functions
\* do not raise and class every box as center and far.
C16_ZeroSizedFrameIsCenterFar ==
    (Sampled /\ (frame_w = 0 \/ frame_h = 0)) =>
        \A i \in 1..Len(last.detections) :
            /\ last.detections[i].horiz = "center"
            /\ last.detections[i].depth = "far"

(***************************************************************************)
(* The order of the detections of a frame.                                 *)
(***************************************************************************)
Orders(n) ==
    {p \in [1..n -> 1..n] : \A i, j \in 1..n : i # j => p[i] # p[j]}

\* the detections one detector contributed, in the order it gave them
OfModel(dets, model) == SelectSeq(dets, LAMBDA d : d.model = model)

\* the frame's list with the three detectors concatenated in the order p
Concatenated(dets, p) ==
    LET blocks == <<OfModel(dets, "yolo"), OfModel(dets, "lights"),
                    OfModel(dets, "zebra")>>
    IN  blocks[p[1]] \o blocks[p[2]] \o blocks[p[3]]

\* C17 as stated: the message of a frame and the announcement state it
\* leaves are the same for every permutation of the frame's detections.
C17_AnyPermutation ==
    [][ last'.kind = "sampled" =>
          \A p \in Orders(Len(last'.detections)) :
              LET r == frame_result([i \in 1..Len(last'.detections) |->
                                        last'.detections[p[i]]],
                                    last'.frame, detection_state)
              IN  r.ret = last'.ret /\ r.state = detection_state'
      ]_vars

\* The statement of C17 for the frames it cannot fail on because of the
\* confidence threshold or of a second zebra bucket: every detection has a
\* confidence of at least 0.7 and at most one is a zebra crossing.
C17_AnyPermutationOfConfident ==
    [][ ( /\ last'.kind = "sampled"
          /\ \A i \in 1..Len(last'.detections) : last'.detections[i].conf >= 70
          /\ Len(OfModel(last'.detections, "zebra")) <= 1 ) =>
          \A p \in Orders(Len(last'.detections)) :
              LET r == frame_result([i \in 1..Len(last'.detections) |->
                                        last'.detections[p[i]]],
                                    last'.frame, detection_state)
              IN  r.ret = last'.ret /\ r.state = detection_state'
      ]_vars

\* C17, amended: the message of a frame and the announcement state it
\* leaves are the same for every order in which the lists of the three
\* detectors are concatenated, each list keeping its own order.
C17_AnyConcatenationOrder ==
    [][ last'.kind = "sampled" =>
          \A p \in Orders(3) :
              LET r == frame_result(Concatenated(last'.detections, p),
                                    last'.frame, detection_state)
              IN  r.ret = last'.ret /\ r.state = detection_state'
      ]_vars

\* a frame that holds a detection of each of the three detectors and emits
\* a message
C17_Witness ==
    /\ Sampled
    /\ \A model \in {"yolo", "lights", "zebra"} :
          OfModel(last.detections, model) # <<>>
    /\ last.ret # <<>>
    /\ Len(last.cands) >= 2

(***************************************************************************)
(* Grouping.                                                               *)
(***************************************************************************)
\* C18: group_detections partitions the list of detections: the buckets
\* have distinct keys, one for every triple (label, horizontal zone, depth
\* zone) of the list; a bucket holds exactly the detections of its triple,
\* in the order of the list, so that bucket[0] is the first encountered;
\* the sizes of the buckets sum to the length of the list.
C18_GroupingIsAPartition ==
    Sampled =>
        LET dets == last.detections
            grouped == group_detections(dets)
        IN  /\ \A i, j \in 1..Len(grouped) :
                  i # j => grouped[i].key # grouped[j].key
            /\ {grouped[i].key : i \in 1..Len(grouped)} = AllKeys(dets)
            /\ \A i \in 1..Len(grouped) :
                  /\ grouped[i].dets # <<>>
                  /\ \A j \in 1..Len(grouped[i].dets) :
                        KeyOf(grouped[i].dets[j]) = grouped[i].key
                  /\ grouped[i].dets =
                        SelectSeq(dets, LAMBDA d : KeyOf(d) = grouped[i].key)
                  /\ grouped[i].dets[1] = Rep(dets, grouped[i].key)
            /\ Cardinality({<<i, j>> \in (1..Len(grouped)) \X (1..Len(dets)) :
                               j <= Len(grouped[i].dets)}) = Len(dets)

\* two different detections of one triple with a detection of another
\* triple between them
C18_Witness ==
    /\ Sampled
    /\ Len(last.detections) = 3
    /\ KeyOf(last.detections[1]) = KeyOf(last.detections[3])
    /\ KeyOf(last.detections[1]) # KeyOf(last.detections[2])
    /\ last.detections[1] # last.detections[3]
    /\ Len(group_detections(last.detections)) = 2

(***************************************************************************)
(* Invocations on the same video.                                          *)
(***************************************************************************)
IsPrefix(a, b) == Len(a) <= Len(b) /\ a = SubSeq(b, 1, Len(a))

\* invocations that have got as far as one another have done the same
SameSoFar(ss) ==
    \A s, t \in DOMAIN ss :
        /\ ss[s].frame_count <= ss[t].frame_count
              => IsPrefix(ss[s].audio_log, ss[t].audio_log)
        /\ ss[s].frame_count = ss[t].frame_count
              => /\ ss[s].audio_log = ss[t].audio_log
                 /\ ss[s].detection_state = ss[t].detection_state
                 /\ ss[s].processed_frames = ss[t].processed_frames

\* C20: two invocations fed the same detections frame by frame, run one
\* after the other or interleaved, produce the same message log: each
\* starts from an empty announcement state, an empty log and frame counter
\* 0, and a step of one invocation leaves the announcement state, the frame
\* counter and the log of the other as they were.
C20_SessionsAreIndependent ==
    [][ /\ SameSoFar(sessions')
        /\ \A s \in SessionIds :
              sessions'[s] # sessions[s] =>
                  \A t \in SessionIds \ {s} : sessions'[t] = sessions[t]
        /\ \A s \in SessionIds :
              (sessions[s].status = "returned" /\ sessions'[s].status = "returned")
                  => sessions'[s] = sessions[s]
      ]_vars

\* both invocations have returned the same two messages
C20_Witness ==
    /\ \A s \in SessionIds : sessions[s].status = "returned"
    /\ Len(sessions[1].audio_log) = 2
    /\ sessions[1].audio_log = sessions[2].audio_log

\* one invocation two sampled frames ahead of the other
C20_InterleavedWitness ==
    /\ sessions[1].status = "running"
    /\ sessions[2].status = "running"
    /\ sessions[1].frame_count = 1
    /\ sessions[2].frame_count = 121
    /\ Len(sessions[1].audio_log) = 1
    /\ Len(sessions[2].audio_log) = 2

(***************************************************************************)
(* Properties of the invocations followed call by call.                    *)
(***************************************************************************)
Returned == run.pc = "returned"

OpenError == <<"Error: Could not open video file.">>

\* C21: if the frame source cannot be opened, run_detection and
\* run_detection_with_video return exactly the one-element list
\* ['Error: Could not open video file.'], and have read no frame, called no
\* detector and created no frame sink.
C21_UnopenableSourceGivesOneMessage ==
    (~Videos[scene].opened /\ run.pc \in {"exit", "returned"}) =>
        /\ Returned => run.ret = OpenError
        /\ run.reads = 0
        /\ run.detected = <<>>
        /\ run.arbitrated = <<>>
        /\ run.out = "none"
        /\ run.written = <<>>
        /\ \A i \in 1..Len(done) : done[i].ret = OpenError

\* both functions have returned from a file that does not open
C21_Witness ==
    /\ ~Videos[scene].opened
    /\ Returned
    /\ run.fn = "run_detection_with_video"
    /\ run.ret = OpenError
    /\ Len(done) = 1
    /\ done[1].fn = "run_detection"
    /\ done[1].ret = OpenError

FaultNames == {"writer", "read", "detect", "write", "on_progress"}

Diagnostics == {"An error occurred during processing: " \o f : f \in FaultNames}

Raised == run.pc = "exit" /\ run.exit = "exception"

\* C22: when a call of the loop raises, the messages logged so far stay as
\* they are; the function then appends one diagnostic string as the last
\* entry of the log, touches no further frame, and returns the log.
C22_ExceptionEndsTheSessionWithADiagnostic ==
    [][/\ (run.pc = "loop" /\ run'.exit = "exception") =>
            /\ run'.pc = "exit"
            /\ IsPrefix(run.audio_log, run'.audio_log)
            /\ \A i \in 1..Len(run'.audio_log) : run'.audio_log[i] \notin Diagnostics
       /\ Raised =>
            /\ run'.pc = "returned"
            /\ run'.ret = Append(run.audio_log, run'.ret[Len(run'.ret)])
            /\ run'.ret[Len(run'.ret)] \in Diagnostics
            /\ run'.reads = run.reads
            /\ run'.detected = run.detected
            /\ run'.arbitrated = run.arbitrated
            /\ run'.written = run.written]_vars

\* a detector raised after two frames had put a message in the log
C22_Witness ==
    /\ Returned
    /\ run.faults = <<"detect">>
    /\ Len(run.ret) = 3
    /\ run.ret[3] \in Diagnostics
    /\ run.ret[1] \notin Diagnostics
    /\ run.reads < FramesInSource

\* C23: on every exit path (end of stream, source that does not open,
\* early stop, exception in a frame, release call that raises), release has
\* been called on the frame source that was acquired and on the frame sink
\* if one was created, by the time the function returns.
C23_SourceAndSinkAreReleased ==
    Returned =>
        /\ run.cap \in {"released", "release_raised"}
        /\ run.out \in {"none", "released", "release_raised"}

\* C23 as the code has it: release is called on the frame source on every
\* exit path, and on the frame sink on every path on which the release of
\* the source has not raised.
C23_SinkReleasedUnlessSourceReleaseRaised ==
    Returned =>
        /\ run.cap \in {"released", "release_raised"}
        /\ run.cap = "released" => run.out \in {"none", "released", "release_raised"}
        /\ (run.cap = "release_raised" /\ run.fn = "run_detection_with_video"
            /\ run.exit # "not_opened" /\ "writer" \notin {run.faults[i] : i \in 1..Len(run.faults)})
              => run.out = "open"

\* cap.release() raised in run_detection_with_video: the sink is still open
C23_SinkLeftOpen ==
    /\ Returned
    /\ run.fn = "run_detection_with_video"
    /\ run.exit = "end_of_stream"
    /\ run.cap = "release_raised"
    /\ run.out = "open"
    /\ Len(run.written) = FramesInSource

\* the invocations that have returned, the one in run included
Finished == IF Returned THEN Append(done, summary(run)) ELSE done

\* C24: on the same video, with the same detector outputs,
\* run_detection_with_video returns the same list of messages as
\* run_detection.
C24_SameLogAsRunDetection ==
    \A i, j \in 1..Len(Finished) :
        (/\ Finished[i].fn = "run_detection"
         /\ Finished[j].fn = "run_detection_with_video"
         /\ Finished[i].faults = <<>>
         /\ Finished[j].faults = <<>>) => Finished[i].ret = Finished[j].ret

\* C24 as the code has it: the list of run_detection is the list of
\* run_detection_with_video cut after its twelfth message.
C24_RunDetectionStopsAtTwelve ==
    \A i, j \in 1..Len(Finished) :
        (/\ Finished[i].fn = "run_detection"
         /\ Finished[j].fn = "run_detection_with_video"
         /\ Finished[i].faults = <<>>
         /\ Finished[j].faults = <<>>) =>
            /\ IsPrefix(Finished[i].ret, Finished[j].ret)
            /\ Len(Finished[i].ret) =
                 IF Len(Finished[j].ret) > EARLY_STOP THEN EARLY_STOP
                 ELSE Len(Finished[j].ret)

\* both functions have run on the video of fourteen vehicles
C24_BothRan ==
    /\ Returned
    /\ run.fn = "run_detection_with_video"
    /\ run.faults = <<>>
    /\ Len(run.ret) = 14
    /\ Len(done) = 1
    /\ done[1].fn = "run_detection"
    /\ done[1].exit = "early_stop"
    /\ Len(done[1].ret) = EARLY_STOP

\* max(1, round(rate / 3))
Stride(rate) ==
    LET n == round_half_even(rate, 3)
    IN  IF n < 1 THEN 1 ELSE n

\* the indices below n that are multiples of stride, in order
MultiplesBelow(n, stride) ==
    LET count == IF n = 0 THEN 0 ELSE (n - 1) \div stride + 1
    IN  [i \in 1..count |-> (i - 1) * stride]

\* of the frames read by r, those and only those whose source index is a
\* multiple of stride went to the detectors, and those of them that held
\* detections went to arbitration (an invocation that a raising call has
\* ended may not have got to the detectors on its last frame)
SampledByStride(r, stride) ==
    r.exit # "exception" =>
        /\ r.detected = MultiplesBelow(r.reads, stride)
        /\ r.arbitrated = SelectSeq(r.detected, LAMBDA f : video[f] # <<>>)

\* the step from r to q read a frame whose index is no multiple of stride:
\* it changed neither the announcement state nor the log, and added one to
\* the frame counter
UnsampledStep(r, q, stride) ==
    (r.pc = "loop" /\ q.reads = r.reads + 1 /\ r.reads % stride # 0) =>
        /\ q.detection_state = r.detection_state
        /\ q.audio_log = r.audio_log
        /\ q.processed_frames = r.processed_frames
        /\ q.exit # "exception" => q.frame_count = r.frame_count + 1

C25_KnownRateWitness ==
    /\ Videos[scene].fps = 90
    /\ Returned
    /\ run.detected = <<0, 30, 60>>
    /\ run.frame_count = 61

\* the frames 0 .. n - 1 in order, sampled ones annotated and the others not
WrittenInOrder(written, stride) ==
    \A i \in 1..Len(written) :
        /\ written[i].frame = i - 1
        /\ written[i].annotated = ((i - 1) % stride = 0)

OpsOf(step) == [i \in 1..Len(step) |-> step[i].op]

\* C26: in run_detection_with_video, as long as no call raises, every frame
\* read from the source is written to the sink exactly once and in source
\* order, an unsampled frame unmodified, a sampled frame as its annotated
\* copy and after the frame's arbitration has run; at normal termination as
\* many frames have been written as were read.
C26_EveryFrameWrittenOnceInOrder ==
    (run.fn = "run_detection_with_video" /\ run.exit # "exception") =>
        /\ Len(run.written) = run.reads
        /\ WrittenInOrder(run.written, frame_skip(fps))
        /\ \A i \in 1..Len(run.step) :
              run.step[i].op = "write_annotated" =>
                  /\ i > 1
                  /\ \A j \in 1..Len(run.step) :
                        run.step[j].op \in {"detect", "arbitrate"} => j < i
                  /\ \E j \in 1..(i - 1) : run.step[j].op = "detect"
                  /\ video[run.step[i].frame] # <<>> =>
                        \E j \in 1..(i - 1) : /\ run.step[j].op = "arbitrate"
                                              /\ run.step[j].frame = run.step[i].frame
        /\ (Returned /\ run.exit = "end_of_stream") =>
              Len(run.written) = FramesInSource

\* the video at 5 frames a second written through: frames 0, 2 and 4
\* annotated, frames 1 and 3 unmodified
C26_Witness ==
    /\ Returned
    /\ run.fn = "run_detection_with_video"
    /\ run.exit = "end_of_stream"
    /\ run.faults = <<>>
    /\ Videos[scene].fps = 5
    /\ Len(run.written) = 5
    /\ run.written[2] = [frame |-> 1, annotated |-> FALSE]
    /\ run.written[5] = [frame |-> 4, annotated |-> TRUE]

\* C27: within an invocation the frame index passed to arbitration is the
\* source index of the frame held, it is strictly greater at each
\* arbitration call than at the one before, so that no frame is arbitrated
\* twice or out of order, and the arbitration of a frame is over before the
\* next frame is read.
C27_ArbitrationFollowsTheSource ==
    /\ \A i, j \in 1..Len(run.arbitrated) :
          i < j => run.arbitrated[i] < run.arbitrated[j]
    /\ \A i \in 1..Len(run.arbitrated) : run.arbitrated[i] < run.reads
    /\ \A i \in 1..Len(run.step) :
          /\ run.step[i].op = "read" <=> i = 1
          /\ run.step[i].op = "arbitrate" =>
                /\ run.step[1].frame = run.step[i].frame
                /\ run.step[i].frame = run.reads - 1
                /\ run.arbitrated[Len(run.arbitrated)] = run.step[i].frame
                /\ \A j \in 1..Len(run.step) : run.step[j].op = "arbitrate" => j = i
    /\ run.pc = "loop" => run.frame_count = run.reads

\* frames 0, 30 and 60 of a video have been arbitrated under these indices
C27_Witness ==
    /\ run.arbitrated = <<0, 30, 60>>
    /\ run.reads = 61
    /\ run.step[1] = Event("read", 60)
    /\ \E i \in 2..Len(run.step) : run.step[i] = Event("arbitrate", 60)

\* a percentage <<n, d>> is at most another
PercentLeq(p, q) == p[1] * q[2] <= q[1] * p[2]

\* C29: the percentages passed to the progress callback within one
\* invocation are non-decreasing, each is frame_count / max(1, total_frames)
\* * 100, and one is passed exactly when the number of frames consumed so
\* far is a positive multiple of 30.
C29_ProgressEveryThirtyFrames ==
    (run.fn = "run_detection_with_video" /\ run.on_progress \in {"callable", "raising"}) =>
        /\ Len(run.progress) = run.frame_count \div 30
        /\ \A k \in 1..Len(run.progress) :
              /\ run.progress[k].frame_count = 30 * k
              /\ run.progress[k].percent[1] = 30 * k * 100
              /\ run.progress[k].percent[2] = (IF total_frames >= 1 THEN total_frames ELSE 1)
        /\ \A i, j \in 1..Len(run.progress) :
              i < j => PercentLeq(run.progress[i].percent, run.progress[j].percent)
        /\ \A i \in 1..Len(run.step) :
              run.step[i].op = "progress" =>
                  /\ i = Len(run.step)
                  /\ run.step[i].frame = run.frame_count
                  /\ run.frame_count % 30 = 0
                  /\ run.frame_count > 0

\* the callback has been given 30/61 and 60/61 of a hundred
C29_Witness ==
    /\ run.fn = "run_detection_with_video"
    /\ run.on_progress = "callable"
    /\ run.frame_count = 61
    /\ total_frames = 61
    /\ Len(run.progress) = 2
    /\ run.progress[1].percent = <<3000, 61>>
    /\ run.progress[2].percent = <<6000, 61>>

\* C30: a progress callback that raises, or an on_progress that is not
\* callable, never aborts the pipeline: the invocation goes on with the
\* next frame, and its final message log is the one of an invocation with
\* no callback at all.
C30_CallbackNeverAborts ==
    /\ (run.on_progress \in {"raising", "not_callable"} /\ run.faults = <<>>) =>
          /\ run.exit \in {"none", "end_of_stream", "not_opened"}
          /\ run.exc = <<>>
          /\ Returned => run.reads = FramesInSource
          /\ \A i \in 1..Len(run.audio_log) : run.audio_log[i] \notin Diagnostics
    /\ \A i, j \in 1..Len(Finished) :
          (/\ Finished[i].fn = "run_detection_with_video"
           /\ Finished[j].fn = "run_detection_with_video"
           /\ Finished[i].on_progress = "none"
           /\ Finished[j].on_progress \in {"raising", "not_callable"}
           /\ Finished[i].faults = <<>>
           /\ Finished[j].faults = <<>>) => Finished[i].ret = Finished[j].ret

\* an invocation whose callback raised twice has returned the three
\* messages that the invocation without callback returned
C30_Witness ==
    /\ Returned
    /\ run.on_progress = "raising"
    /\ Len(run.progress) = 2
    /\ run.faults = <<>>
    /\ Len(run.ret) = 3
    /\ Len(done) = 1
    /\ done[1].fn = "run_detection_with_video"
    /\ done[1].on_progress = "none"
    /\ done[1].ret = run.ret

\* the same with an on_progress that is not callable
C30_NotCallableWitness ==
    /\ Returned
    /\ run.on_progress = "not_callable"
    /\ run.frame_count = 61
    /\ run.faults = <<>>
    /\ Len(done) = 1
    /\ done[1].on_progress = "none"
    /\ done[1].ret = run.ret

(***************************************************************************)
(* Properties of the admission gate.                                       *)
(***************************************************************************)
Running == {r \in RequestIds : requests[r].at = "running"}

\* max(1, cpu_count // 2)
Limit(cpu_count) == IF cpu_count \div 2 > 1 THEN cpu_count \div 2 ELSE 1

\* C28: at any time the number of sessions executing
\* run_detection_with_video is at most max(1, cpu_count // 2); the permit of
\* a request is released when its session ends, by a return or by an
\* exception; and a request that waits is eventually admitted.
C28_GateBoundsTheSessions ==
    /\ [](Cardinality(Running) <= Limit(semaphore.cpu_count))
    /\ [](semaphore.value + Cardinality(Running) = Limit(semaphore.cpu_count))
    /\ [][\A r \in RequestIds :
            (requests[r].at = "running" /\ requests'[r].at \in {"returned", "raised"})
                => semaphore'.value = semaphore.value + 1]_vars
    /\ \A r \in RequestIds :
          (requests[r].at = "waiting") ~> (requests[r].at = "running")

\* on a machine of four processors two sessions run, one of them of a
\* request that waited and was admitted after a session had ended by an
\* exception
C28_Witness ==
    /\ semaphore.cpu_count = 4
    /\ Cardinality(Running) = 2
    /\ \E r \in Running : requests[r].waited
    /\ \E r \in RequestIds : requests[r].at = "raised"

(***************************************************************************)
(* Properties of the announcement state over the frames of a session.      *)
(***************************************************************************)
\* the entry of key k after a frame in which it occurred: created at the
\* frame, or last_frame set to the frame and count incremented
TrackedAt(k, frame, before, after) ==
    /\ k \in DOMAIN after
    /\ IF k \in DOMAIN before
       THEN /\ after[k].last_frame = frame
            /\ after[k].count = before[k].count + 1
            /\ after[k].first_frame = before[k].first_frame
       ELSE after[k] = NewEntry(frame)

\* C31: an entry is created in the first frame in which its key occurs
\* among the frame's buckets, and updated (last_frame set to the frame,
\* count incremented) in every later sampled frame in which the key occurs
\* again; entries are never deleted during the session.
C31_EveryKeyOfTheFrameIsTracked ==
    [][ last'.kind = "sampled" =>
          /\ \A k \in AllKeys(last'.detections) :
                TrackedAt(k, last'.frame, detection_state, detection_state')
          /\ DOMAIN detection_state \subseteq DOMAIN detection_state'
      ]_vars

\* C31 on the buckets of confidence >= 0.7 alone
C31_EveryConfidentKeyIsTracked ==
    [][ last'.kind = "sampled" =>
          \A k \in AllKeys(last'.detections) :
              Rep(last'.detections, k).conf >= 70 =>
                  TrackedAt(k, last'.frame, detection_state, detection_state')
      ]_vars

\* C31 as the code has it: the keys created or updated by a frame are those
\* the frame passes to should_announce, and no entry is deleted.
C31_CalledKeysAreTracked ==
    [][ last'.kind = "sampled" =>
          /\ \A k \in CalledKeys(last'.calls) :
                TrackedAt(k, last'.frame, detection_state, detection_state')
          /\ \A k \in DOMAIN detection_state \ CalledKeys(last'.calls) :
                detection_state'[k] = detection_state[k]
          /\ DOMAIN detection_state' =
                DOMAIN detection_state \cup CalledKeys(last'.calls)
          /\ CalledKeys(last'.calls) \subseteq AllKeys(last'.detections)
      ]_vars

\* a frame with two confident vehicle buckets in front: the farther one has
\* no entry
C31_UntrackedKey ==
    /\ Sampled
    /\ \E k \in AllKeys(last.detections) :
          /\ k[1] \in Vehicles
          /\ Rep(last.detections, k).conf >= 70
          /\ k \notin DOMAIN detection_state
    /\ \E k \in AllKeys(last.detections) :
          k[1] \in Vehicles /\ k \in DOMAIN detection_state

\* text is part of msg, at its start or after the word before it
Holds(msg, before, text) ==
    \E rest \in {" right in front of you! Stay where you are!",
                 " coming towards you.",
                 " on your left side! Don't move!",
                 " approaching on your left.",
                 " on your right side! Don't move!",
                 " approaching on your right."} :
        msg = before \o text \o rest

\* "A <Label>" for one detection, "<n> <Label>s" for n > 1
CountedLabel(label, n) ==
    IF n = 1 THEN "A " \o label ELSE ToString(n) \o " " \o label \o "s"

\* "Person <zone>." for one detection, "<n> people <zone>." for n > 1
CountedPeople(zone, n) ==
    (IF n = 1 THEN "Person" ELSE ToString(n) \o " people") \o " " \o zone \o "."

\* the detections of dets in the bucket of key k, whatever their confidence
BucketSize(dets, k) == Cardinality({i \in 1..Len(dets) : KeyOf(dets[i]) = k})

\* C32: the text of a vehicle message is built from the size of its bucket,
\* 'A <Label>' for one detection and '<n> <Label>s' for n > 1; the text of a
\* person message is 'Person <zone>.' for one detection and
\* '<n> people <zone>.' for n > 1; n is the total number of detections in
\* the bucket.
C32_TextCountsTheBucket ==
    /\ \A i \in 1..Len(last.cands) :
          LET c == last.cands[i]
              n == BucketSize(last.detections, c.key)
          IN  /\ c.stage \in {"center", "left", "right"} =>
                    /\ n >= 1
                    /\ \E before \in {"Watch out! ", "Careful! ", "Warning! ", ""} :
                          Holds(c.msg, before, CountedLabel(c.key[1], n))
              /\ c.stage = "person" =>
                    /\ n >= 1
                    /\ c.msg = CountedPeople(IF c.key[2] = "center" THEN "ahead"
                                             ELSE c.key[2], n)

\* a frame whose message counts three cars, one of them below the threshold
C32_Witness ==
    /\ Sampled
    /\ last.ret = <<"Watch out! 3 Cars right in front of you! Stay where you are!">>
    /\ \E i \in 1..Len(last.detections) : last.detections[i].conf < 70

\* a frame whose message counts two people
C32_PeopleWitness ==
    /\ Sampled
    /\ last.ret = <<"2 people ahead.">>

\* frames with one vehicle and with one person
C32_SingleWitness ==
    /\ Sampled
    /\ Len(audio_log) = 2
    /\ audio_log[1] = "Person ahead."
    /\ audio_log[2] = "Person right."

\* C33: in every reachable state of a session every entry of the
\* announcement state has first_frame <= last_announced <= last_frame <=
\* current frame index and count >= 1; first_frame never changes after
\* creation, last_announced and count never decrease, and the set of keys
\* only grows.
C33_EntriesAreOrderedAndMonotone ==
    /\ [](\A k \in DOMAIN detection_state :
             /\ detection_state[k].first_frame <= detection_state[k].last_announced
             /\ detection_state[k].last_announced <= detection_state[k].last_frame
             /\ detection_state[k].last_frame <= frame_count
             /\ detection_state[k].count >= 1)
    /\ [][ /\ DOMAIN detection_state \subseteq DOMAIN detection_state'
           /\ \A k \in DOMAIN detection_state :
                 /\ detection_state'[k].first_frame = detection_state[k].first_frame
                 /\ detection_state'[k].last_announced >= detection_state[k].last_announced
                 /\ detection_state'[k].count >= detection_state[k].count
                 /\ detection_state'[k].last_frame >= detection_state[k].last_frame
         ]_vars

\* an entry seen three times and announced twice: first_frame <
\* last_announced = last_frame
C33_Witness ==
    \E k \in DOMAIN detection_state :
        /\ detection_state[k].first_frame = 0
        /\ detection_state[k].last_announced = 120
        /\ detection_state[k].last_frame = 120
        /\ detection_state[k].count = 3

\* an entry seen again inside the window: last_announced < last_frame
C33_SuppressedWitness ==
    \E k \in DOMAIN detection_state :
        /\ detection_state[k].last_announced = 0
        /\ detection_state[k].last_frame = 60
        /\ detection_state[k].count = 2
        /\ frame_count > 60

\* key k was never the key of an emitted message
NeverEmitted(k) == \A i \in 1..Len(emissions) : emissions[i].key # k

\* C34: a key that passes should_announce in a frame has its cooldown
\* started at that frame whether or not its message is the one emitted (a
\* candidate that loses the arbitration, a nearest vehicle of proximity
\* <= 0.5, a zebra crossing with vehicles none of which is above 0.6): it
\* produces no candidate in any later frame fewer than 120 indices after it.
C34_CooldownStartsWithoutEmission ==
    [][ last'.kind = "sampled" =>
          /\ \A i \in 1..Len(last'.calls) :
                last'.calls[i].ret =>
                    detection_state'[last'.calls[i].key].last_announced = last'.frame
          /\ \A j \in 1..Len(last'.cands) :
                last'.cands[j].key \in DOMAIN detection_state =>
                    last'.frame - detection_state[last'.cands[j].key].last_announced >= 120
          /\ \A i \in 1..Len(last'.calls) :
                (/\ last'.calls[i].key \in DOMAIN detection_state
                 /\ last'.frame - detection_state[last'.calls[i].key].last_announced < 120)
                    => /\ ~last'.calls[i].ret
                       /\ \A j \in 1..Len(last'.cands) :
                             last'.cands[j].key # last'.calls[i].key
      ]_vars

\* a green light that lost frame 0 to a red light is alone in a frame
\* fewer than 120 indices later: it is called, not passed, and the frame
\* has no candidate
C34_Witness ==
    /\ Sampled
    /\ last.frame \in {60, 119}
    /\ Len(last.detections) = 1
    /\ last.detections[1].label = "Green Light"
    /\ last.detections[1].conf >= 70
    /\ last.cands = <<>>
    /\ Len(last.calls) = 1
    /\ ~last.calls[1].ret
    /\ NeverEmitted(last.calls[1].key)
    /\ detection_state[last.calls[1].key].last_announced = 0

\* a zebra crossing that passed in frame 0 beside a vehicle of proximity
\* 0.55, without a candidate, is alone and silent in a later frame
C34_ZebraWitness ==
    /\ Sampled
    /\ last.frame \in {60, 119}
    /\ Len(last.detections) = 1
    /\ last.detections[1].label = "Zebra Crossing"
    /\ last.cands = <<>>
    /\ Len(last.calls) = 1
    /\ ~last.calls[1].ret
    /\ NeverEmitted(last.calls[1].key)

\* an approaching vehicle that passed in an earlier frame and lost it to a
\* candidate of higher priority is alone and silent in a later frame
C34_VehicleWitness ==
    /\ Sampled
    /\ last.frame \in {60, 119}
    /\ Len(last.detections) = 1
    /\ last.detections[1].label \in Vehicles
    /\ last.detections[1].depth = "approaching"
    /\ last.cands = <<>>
    /\ Len(last.calls) = 1
    /\ ~last.calls[1].ret
    /\ NeverEmitted(last.calls[1].key)

\* the key of the first zebra-crossing detection of the list, if any
FirstZebraKey(dets) ==
    LET zs == {i \in 1..Len(dets) : dets[i].label = "Zebra Crossing"}
    IN  IF zs = {} THEN {}
        ELSE {KeyOf(dets[CHOOSE i \in zs : \A j \in zs : i <= j])}

\* S holds nothing if keys is empty, and otherwise one key of keys whose
\* bucket is as near as any other of keys
OneNearest(S, keys, dets) ==
    IF keys = {} THEN S = {}
    ELSE \E k \in keys :
            /\ S = {k}
            /\ \A k2 \in keys :
                  ScoreGeq(Rep(dets, k).dist_score, Rep(dets, k2).dist_score)

\* the keys that generate_audio_message is to pass to should_announce on
\* the detections dets are the keys of called
CalledAsSpecified(called, dets) ==
    /\ called \subseteq AllKeys(dets)
    /\ \A k \in called :
          k[1] \in TRAFFIC_LIGHTS \cup Vehicles \cup {"Zebra Crossing", "Person"}
    /\ {k \in called : k[1] \in TRAFFIC_LIGHTS} =
          {k \in AllKeys(dets) : k[1] \in TRAFFIC_LIGHTS /\ Rep(dets, k).conf >= 70}
    /\ \A zone \in {"left", "center", "right"} :
          OneNearest({k \in called : k[1] \in Vehicles /\ k[2] = zone},
                     ZoneKeys(dets, zone), dets)
    /\ {k \in called : k[1] = "Zebra Crossing"} =
          {k \in FirstZebraKey(dets) : Rep(dets, k).conf >= 70}
    /\ LET people == {k \in called : k[1] = "Person"}
       IN  IF \E k \in PersonKeys(dets) : ScoreGt(Rep(dets, k).dist_score, 75, 100)
           THEN OneNearest(people, PersonKeys(dets), dets)
           ELSE people = {}

\* C35: one call of generate_audio_message calls should_announce at most
\* once per key, and creates or updates entries only for the light buckets
\* of confidence >= 0.7, the nearest vehicle bucket of each zone among those
\* of confidence >= 0.7, the first zebra bucket if its confidence is >= 0.7
\* and the nearest person bucket if its proximity is > 0.75; the entries of
\* all other keys are left unchanged.
C35_OnlySpecifiedKeysAreTouched ==
    [][ last'.kind = "sampled" =>
          /\ \A i, j \in 1..Len(last'.calls) :
                i # j => last'.calls[i].key # last'.calls[j].key
          /\ CalledAsSpecified(CalledKeys(last'.calls), last'.detections)
          /\ DOMAIN detection_state' =
                DOMAIN detection_state \cup CalledKeys(last'.calls)
          /\ \A k \in DOMAIN detection_state :
                k \in CalledKeys(last'.calls) <=> detection_state'[k] # detection_state[k]
      ]_vars

\* a frame holding a very close person, a far person and an object of a
\* class without a name: only the first has an entry
C35_Witness ==
    /\ Sampled
    /\ Len(last.detections) = 3
    /\ Cardinality(CalledKeys(last.calls)) = 1
    /\ \E k \in AllKeys(last.detections) :
          k[1] = "Person" /\ k[3] = "far" /\ k \notin DOMAIN detection_state
    /\ \E k \in AllKeys(last.detections) :
          k[1] \notin TRAFFIC_LIGHTS \cup Vehicles \cup {"Zebra Crossing", "Person"}
    /\ \E k \in AllKeys(last.detections) :
          k[1] = "Person" /\ k \in DOMAIN detection_state

\* a frame in which three keys are called
C35_ManyCallsWitness ==
    /\ Sampled
    /\ Cardinality(CalledKeys(last.calls)) = 3

\* the first zebra bucket of the frame has a first detection below the
\* confidence threshold
FirstZebraIsFaint(dets) ==
    /\ FirstZebraKey(dets) # {}
    /\ \A k \in FirstZebraKey(dets) : Rep(dets, k).conf < CONFIDENCE_THRESHOLD

ZebraEntries(st) == {k \in DOMAIN st : k[1] = "Zebra Crossing"}

\* C36: of several zebra buckets only the first in insertion order is
\* examined: if its first detection has confidence < 0.7 the frame has no
\* zebra message and no zebra key is called, created or updated, even when a
\* later zebra bucket has confidence >= 0.7; and a zebra key that is called
\* is the key of the first zebra bucket.
C36_OnlyTheFirstZebraBucketIsExamined ==
    [][ last'.kind = "sampled" =>
          /\ \A k \in CalledKeys(last'.calls) :
                k[1] = "Zebra Crossing" => k \in FirstZebraKey(last'.detections)
          /\ \A i \in 1..Len(last'.cands) :
                last'.cands[i].stage = "zebra" =>
                   last'.cands[i].key \in FirstZebraKey(last'.detections)
          /\ FirstZebraIsFaint(last'.detections) =>
                /\ \A k \in CalledKeys(last'.calls) : k[1] # "Zebra Crossing"
                /\ \A i \in 1..Len(last'.cands) : last'.cands[i].stage # "zebra"
                /\ ZebraEntries(detection_state') = ZebraEntries(detection_state)
                /\ \A k \in ZebraEntries(detection_state) :
                      detection_state'[k] = detection_state[k]
      ]_vars

\* a faint zebra bucket ahead of a confident one that no vehicle stands in
\* the way of, in a session that has announced no crossing: the frame leaves
\* the state without a zebra key
C36_Witness ==
    /\ Sampled
    /\ FirstZebraIsFaint(last.detections)
    /\ \E k \in AllKeys(last.detections) :
          /\ k[1] = "Zebra Crossing"
          /\ Rep(last.detections, k).conf >= CONFIDENCE_THRESHOLD
    /\ \A k \in AllKeys(last.detections) : k[1] = "Zebra Crossing"
    /\ ZebraEntries(detection_state) = {}
    /\ last.ret = <<>>

\* a confident first zebra bucket ahead of a second one: the first alone is
\* called
C36_FirstDecidesWitness ==
    /\ Sampled
    /\ Cardinality({k \in AllKeys(last.detections) : k[1] = "Zebra Crossing"}) >= 2
    /\ \E k \in CalledKeys(last.calls) : k[1] = "Zebra Crossing"

(***************************************************************************)
(* Depth zone and proximity.                                               *)
(***************************************************************************)
\* the tier the message rules read off a proximity: > 0.75, > 0.5, or less
Tier(dist_score) ==
    IF ScoreGt(dist_score, 75, 100) THEN "very close"
    ELSE IF ScoreGt(dist_score, 50, 100) THEN "approaching"
    ELSE "far"

\* the priority of a vehicle candidate of a stage at a tier (0: none)
TierPriority(stage, tier) ==
    IF tier = "very close" THEN (IF stage = "center" THEN 10 ELSE 9)
    ELSE IF tier = "approaching" THEN (IF stage = "center" THEN 8 ELSE 7)
    ELSE 0

\* C37: in a frame of positive height the depth zone of a detection and its
\* proximity agree (very close iff proximity > 0.75, approaching iff 0.5 <
\* proximity <= 0.75, far iff proximity <= 0.5); so the priority of a
\* vehicle candidate is determined by the depth component of its key, and
\* all members of a bucket are in the tier of the bucket's first detection.
C37_DepthZoneAgreesWithProximity ==
    (Sampled /\ frame_h > 0) =>
        /\ \A i \in 1..Len(last.detections) :
              last.detections[i].depth = Tier(last.detections[i].dist_score)
        /\ \A i \in 1..Len(last.cands) :
              LET c == last.cands[i]
              IN  c.stage \in {"center", "left", "right"} =>
                     /\ c.key[3] # "far"
                     /\ c.priority = TierPriority(c.stage, c.key[3])
        /\ \A k \in AllKeys(last.detections) :
              \A i \in Members(last.detections, k) :
                 Tier(last.detections[i].dist_score) =
                    Tier(Rep(last.detections, k).dist_score)

\* a vehicle whose lower edge is on the boundary of the very close zone:
\* proximity exactly 0.75, depth approaching, priority of the approaching tier
C37_Witness ==
    /\ Sampled
    /\ frame_h > 0
    /\ \E i \in 1..Len(last.detections) :
          /\ 4 * last.detections[i].y2 = 3 * frame_h
          /\ last.detections[i].depth = "approaching"
    /\ \E i \in 1..Len(last.cands) :
          /\ last.cands[i].stage = "center"
          /\ last.cands[i].key[3] = "approaching"
          /\ last.cands[i].priority = 8

\* a very close vehicle on a side
C37_SideWitness ==
    /\ Sampled
    /\ frame_h > 0
    /\ \E i \in 1..Len(last.cands) :
          /\ last.cands[i].stage \in {"left", "right"}
          /\ last.cands[i].key[3] = "very close"
          /\ last.cands[i].priority = 9

\* a vehicle whose lower edge is on the boundary of the far zone: no candidate
C37_FarBoundaryWitness ==
    /\ Sampled
    /\ frame_h > 0
    /\ last.cands = <<>>
    /\ \E i \in 1..Len(last.detections) :
          /\ 2 * last.detections[i].y2 = frame_h
          /\ last.detections[i].depth = "far"

\* a bucket of three detections with different proximities in one tier
C37_BucketWitness ==
    /\ Sampled
    /\ \E k \in AllKeys(last.detections) :
          /\ Cardinality(Members(last.detections, k)) = 3
          /\ \E i, j \in Members(last.detections, k) :
                last.detections[i].y2 # last.detections[j].y2

(***************************************************************************)
(* The length of the list of run_detection.                                *)
(***************************************************************************)
\* C38: the list returned by run_detection never has more than 12 entries:
\* the function stops reading frames as soon as the log holds 12 messages
\* (the loop is only entered with fewer), and the diagnostic of an exception
\* is only appended to a log of fewer than 12.
C38_RunDetectionReturnsAtMostTwelve ==
    run.fn = "run_detection" =>
        /\ Len(run.audio_log) <= EARLY_STOP
        /\ InLoop => Len(run.audio_log) < EARLY_STOP
        /\ Raised => Len(run.audio_log) < EARLY_STOP
        /\ (run.pc = "exit" /\ run.exit # "exception") =>
              (Len(run.audio_log) = EARLY_STOP <=> run.exit = "early_stop")
        /\ Returned => Len(run.ret) <= EARLY_STOP
        /\ \A i \in 1..Len(Finished) :
              Finished[i].fn = "run_detection" => Len(Finished[i].ret) <= EARLY_STOP

\* run_detection stopped at the twelfth message with frames left unread
C38_Witness ==
    /\ Returned
    /\ run.fn = "run_detection"
    /\ run.exit = "early_stop"
    /\ Len(run.ret) = EARLY_STOP
    /\ run.reads = EARLY_STOP
    /\ run.reads < FramesInSource

\* a detector raised on the twelfth frame: eleven messages and the
\* diagnostic
C38_DiagnosticWitness ==
    /\ Returned
    /\ run.fn = "run_detection"
    /\ run.exit = "exception"
    /\ Len(run.ret) = EARLY_STOP
    /\ run.ret[EARLY_STOP] \in Diagnostics

====
